---- MODULE Spec2Model ----
(***************************************************************************)
(* The latest-value broadcaster of the web server (Node C).                *)
(*                                                                         *)
(* One receiver thread (zmq_receiver) stores the newest frame in the       *)
(* module-level slot (latest_jpeg, latest_meta, latest_frame_seq) under    *)
(* frame_cond, and any number of MJPEG stream generators (gen inside       *)
(* stream_mjpg) copy it out under the same lock.                           *)
(*                                                                         *)
(* Two versions of the program are modelled, chosen by `session`:          *)
(*   1  projects/session-01/python/web_server/web_server.py                *)
(*   2  projects/session-02/python/web_server/web_server.py                *)
(* They differ in the receiver only: session-02 reads the header before    *)
(* taking the lock and catches every exception of an iteration.            *)
(*                                                                         *)
(* Beside them the module holds the handler of GET /frame.jpg (SnapSpec),  *)
(* the worker threads of the HTTP server that main() starts (PoolSpec),    *)
(* the XSUB/XPUB loop of projects/session-02/python/broker/broker.py       *)
(* (BrokerSpec) and its start-up (StartSpec), and the TTS services: the    *)
(* job API of projects/session-05/app/services/api/api.py (ApiSpec) and    *)
(* the worker of projects/session-07/app/services/worker/worker.py         *)
(* (WorkerSpec) with its run_piper_to_wav (PiperSpec), the web player of   *)
(* projects/session-04/services/web/web.py (Mp3Spec), and the API, two     *)
(* workers and the object store running together (TtsSpec). Each           *)
(* specification moves its own variables and leaves the others at their    *)
(* initial values.                                                         *)
(***************************************************************************)
EXTENDS Integers, Sequences, FiniteSets, TLC

\* ------------------------------------------------------------ bounds
\* Number of multipart messages the SUB socket delivers in a run.
MaxMsgs == 2
\* Number of /stream.mjpg requests made in a run.
NumCursors == 2

\* Number of HTTP requests made in a run of the server's worker pool.
NumReqs == 3
\* Number of worker threads of the HTTP server (the HTTP_THREADS setting).
HTTP_THREADS == 2
\* Number of data frames that reach the broker's XSUB socket in a run.
MaxFrames == 2
\* Number of subscription intents consumers send to the XPUB socket in a run.
MaxIntents == 2

Cursors == 1..NumCursors
Reqs == 1..NumReqs
Threads == 1..HTTP_THREADS

\* ------------------------------------------------------------ values
\* What a received multipart message can be: fewer or more than three
\* parts, a header that is not UTF-8 JSON, a header that is JSON but not an
\* object (list, number, string, null), a header that is a JSON object.
Kinds == {"short", "badjson", "nonobj", "obj"}
\* Payload bytes of a frame (the third part).
Payloads == {<<1>>}

\* Python's None for latest_jpeg. src tells which slot update a stored value
\* comes from: the update of frame f1 is number 1, and so on (0: the initial
\* value). The metadata built from a header is written as that number too.
None == [isNone |-> TRUE, src |-> 0, data |-> <<>>]
Bytes(id, d) == [isNone |-> FALSE, src |-> id, data |-> d]
\* The initial latest_meta = {}.
EmptyMeta == 0
\* The initial last_sent_seq of a generator.
InitialLastSent == -1
\* The holder of `lock` when it is the receiver thread.
Receiver == 0
Free == -1

\* An HTTP response: status, text body, bytes body.
NoResponse == [status |-> 0, text |-> "", body |-> None]
NoFrameYet == [status |-> 503, text |-> "No frame yet", body |-> None]
Ok(d) == [status |-> 200, text |-> "", body |-> d]

\* The consumers (SUB sockets) connected to the broker's XPUB socket and the
\* topics they subscribe to.
Consumers == {"c1", "c2"}
Topics == {"processed"}
\* A data frame is the list of its segments; the frames that reach the XSUB
\* socket: [topic, header, jpeg], a frame of one segment, and a frame of no
\* segment at all.
Frames == {<<"x", "meta", "payload">>, <<"y">>, <<>>}
\* A subscription message is one segment: the byte 1 (subscribe) or 0
\* (unsubscribe) followed by the topic.
SubMsg(op, topic) == <<<<op, topic>>>>

VARIABLES
    session,           \* which version of web_server.py runs
    r_pc,              \* zmq_receiver: position in its loop
    r_msg,             \* zmq_receiver: topic, header_b, jpeg_in of this iteration
    nrecv,             \* messages delivered by sub.recv_multipart() so far
    errors,            \* session-02: the ERRORS counter of web_zmq_receiver
    lock,              \* holder of lock / frame_cond
    latest_jpeg,
    latest_meta,
    latest_frame_seq,
    c_pc,              \* gen: position of each generator
    last_sent_seq,     \* gen: local
    jpeg,              \* gen: local
    expired,           \* gen: wait_for's timeout has run out
    born,              \* history: latest_frame_seq when the generator started
    mjpeg_clients,     \* session-02: the MJPEG_CLIENTS gauge
    \* frame(), the handler of GET /frame.jpg
    f_pc,              \* position of the handler
    f_data,            \* its local `data`
    f_resp,            \* the response it returned
    \* the HTTP server started by main(): serve(app, threads=HTTP_THREADS)
    p_path,            \* path of each request ("" until it arrives)
    p_queue,           \* requests accepted and not yet given to a worker thread
    p_worker,          \* the request each worker thread is running (0: none)
    p_done,            \* requests whose response is complete
    p_parts,           \* parity of the parts each worker thread has written
    \* broker/broker.py
    XPUB_VERBOSE,      \* the setting read from the environment
    b_pc,              \* position of main() in its loop
    events,            \* the sockets poller.poll(250) reported readable
    xsub_in,           \* data frames queued in the XSUB socket for recv
    xpub_in,           \* subscription messages queued in the XPUB socket for recv
    subscribers,       \* XPUB socket: the consumers subscribed to each topic
    msg,               \* local: the data frame in hand
    sub_msg,           \* local: the subscription message in hand
    xpub_out,          \* messages written with xpub.send_multipart, in order
    xsub_out,          \* messages written with xsub.send_multipart, in order
    b_errors,          \* the ERRORS counter of broker_main
    printed,           \* the [SUB]/[UNSUB] lines printed
    xsub_read,         \* history: what xsub.recv_multipart returned, in order
    xpub_read,         \* history: what xpub.recv_multipart returned, in order
    xpub_alt,          \* history: what the XPUB socket would have handed over
                       \* with XPUB_VERBOSE the other way round
    n_intents,         \* history: subscription intents sent by consumers
    closed,            \* the sockets main() has closed
    FRAMES_IN,         \* the counters of shared.observability, by topic label
    FRAMES_OUT,
    BYTES_IN,
    BYTES_OUT,
    \* the broker's start-up: broker.py, module level and main() to the loop
    environ,           \* os.environ: the variables that are set
    s_pc,              \* where the start-up is
    PUB_PORT,          \* the module's globals of those names
    SUB_PORT,
    METRICS_PORT,
    bound,             \* the addresses the two sockets are bound to
    \* the TTS job API: session-05/app/services/api/api.py
    PUBLIC_BASE_URL,   \* the module's global of that name
    hashes,            \* Redis: the hash stored under each key
    lists,             \* Redis: the list stored under each key
    n_uuid,            \* how many times uuid.uuid4() has been called
    n_calls,           \* how many requests have been made
    a_pc,              \* each handler thread: where it is
    a_req,             \* each handler thread: the request it serves
    a_resp,            \* each handler thread: the response it has produced
    \* the TTS worker: session-07/app/services/worker/worker.py
    w_pc,              \* where main() or process_job() is
    raw,               \* the work item that blpop returned
    w_items,           \* how many work items have been taken
    w_exc,             \* the exception that process_job raised, if any
    w_log,             \* history: the calls made for the item in hand
    \* run_piper_to_wav of the worker
    piper_in_PATH,     \* whether shutil.which("piper") finds the binary
    q_pc,              \* where run_piper_to_wav is
    runs,              \* history: the commands run, each with its outcome
    wav,               \* the file at wav_path
    last_err,          \* the local variable of that name
    q_exc,             \* the exception run_piper_to_wav raised, if any
    \* the object store and the web player: session-04/services/web/web.py
    objects,           \* S3: the body stored under each (bucket, key)
    m_pc,              \* where serve_mp3 is
    m_job_id,          \* the job_id of the request path
    m_get,             \* history: the arguments of the get_object call
    m_resp,            \* the response serve_mp3 has produced
    \* the worker processes that run beside the API
    t_pc,              \* each worker: where main() or process_job() is
    t_raw,             \* each worker: the work item that blpop returned
    t_exc,             \* each worker: the exception process_job raised
    t_wait,            \* each worker: the handler thread serving its PUT
    taken,             \* history: the items taken from the queue, by whom
    ran                \* history: how often process_job ran for each job

r_vars == <<r_pc, r_msg, nrecv, errors>>
slot_vars == <<latest_jpeg, latest_meta, latest_frame_seq>>
c_vars == <<c_pc, last_sent_seq, jpeg, expired, born>>
web_vars == <<session, r_vars, lock, slot_vars, c_vars, mjpeg_clients>>
f_vars == <<f_pc, f_data, f_resp>>
p_vars == <<p_path, p_queue, p_worker, p_done, p_parts>>
b_vars == <<XPUB_VERBOSE, b_pc, events, xsub_in, xpub_in, subscribers, msg,
            sub_msg, xpub_out, xsub_out, b_errors, printed, xsub_read,
            xpub_read, xpub_alt, n_intents, closed, FRAMES_IN, FRAMES_OUT,
            BYTES_IN, BYTES_OUT>>
\* The state of the programs beside the web server and the broker.
s_vars == <<environ, s_pc, PUB_PORT, SUB_PORT, METRICS_PORT, bound>>
a_vars == <<PUBLIC_BASE_URL, hashes, lists, n_uuid, n_calls, a_pc, a_req,
            a_resp>>
w_vars == <<w_pc, raw, w_items, w_exc, w_log>>
q_vars == <<piper_in_PATH, q_pc, runs, wav, last_err, q_exc>>
m_vars == <<objects, m_pc, m_job_id, m_get, m_resp>>
t_vars == <<t_pc, t_raw, t_exc, t_wait, taken, ran>>
tts_vars == <<q_vars, m_vars, t_vars>>
more_vars == <<s_vars, a_vars, w_vars, tts_vars>>
\* The state of the video pipeline of sessions 01 and 02.
world == <<web_vars, f_vars, p_vars, b_vars, s_vars>>
\* What the receiver and the stream generators never touch.
others == <<f_vars, p_vars, b_vars, more_vars>>

vars == <<web_vars, f_vars, p_vars, b_vars, more_vars>>

\* The receiver holds no message; id is the number of the slot update the
\* message in hand is to make.
NoMsg == [id |-> 0, kind |-> "obj", data |-> <<>>]

\* The generator is suspended at one of the three yield statements that hand
\* out one part: part_header, jpeg, b"\r\n".
YieldPcs == {"yield"}
\* The generator has started and not ended.
Live(c) == c_pc[c] \notin {"idle", "closed"}

\* The receiver thread and the stream generators of web_server.py as they are
\* when main() has started the receiver and no request has been made.
InitWeb ==
    /\ r_pc = "recv"
    /\ r_msg = NoMsg
    /\ nrecv = 0
    /\ errors = 0
    /\ lock = Free
    /\ latest_jpeg = None
    /\ latest_meta = EmptyMeta
    /\ latest_frame_seq = 0
    /\ c_pc = [c \in Cursors |-> "idle"]
    /\ last_sent_seq = [c \in Cursors |-> InitialLastSent]
    /\ jpeg = [c \in Cursors |-> None]
    /\ expired = [c \in Cursors |-> FALSE]
    /\ born = [c \in Cursors |-> InitialLastSent]
    /\ mjpeg_clients = 0

\* No GET /frame.jpg has been made.
InitFrame ==
    /\ f_pc = "idle"
    /\ f_data = None
    /\ f_resp = NoResponse

\* serve() has started its worker threads; no request has arrived.
InitPool ==
    /\ p_path = [r \in Reqs |-> ""]
    /\ p_queue = <<>>
    /\ p_worker = [t \in Threads |-> 0]
    /\ p_done = {}
    /\ p_parts = [t \in Threads |-> 0]

\* broker main() has bound both sockets and registered them with the poller.
InitBroker ==
    /\ b_pc = "poll"
    /\ events = {}
    /\ xsub_in = <<>>
    /\ xpub_in = <<>>
    /\ subscribers = [t \in Topics |-> {}]
    /\ msg = <<>>
    /\ sub_msg = <<>>
    /\ xpub_out = <<>>
    /\ xsub_out = <<>>
    /\ b_errors = 0
    /\ printed = 0
    /\ xsub_read = <<>>
    /\ xpub_read = <<>>
    /\ xpub_alt = <<>>
    /\ n_intents = 0
    /\ closed = {}
    /\ FRAMES_IN = [xsub_in |-> 0, subs |-> 0]
    /\ FRAMES_OUT = [xpub_out |-> 0, subs |-> 0]
    /\ BYTES_IN = [xsub_in |-> 0, subs |-> 0]
    /\ BYTES_OUT = [xpub_out |-> 0, subs |-> 0]

\* The broker is about to be started with the environment env.
InitStart(env) ==
    /\ environ = env
    /\ s_pc = "PUB_PORT"
    /\ PUB_PORT = 0
    /\ SUB_PORT = 0
    /\ METRICS_PORT = 0
    /\ bound = {}

\* ------------------------------------------------------------ api values
\* JobStatus = Literal["QUEUED", "RUNNING", "DONE", "FAILED"]
JobStatus == {"QUEUED", "RUNNING", "DONE", "FAILED"}
\* What uuid.uuid4() returns, call after call.
UUIDs == <<"j1", "j2">>
\* The job ids a client may ask for: the ones issued and one never issued.
JobIds == {"j1", "j2", "ghost"}
\* The threads that run the handlers.
Handlers == {"h1", "h2"}
\* The number of requests followed.
MaxCalls == 3

APP_ENV == "dev"
BUCKET == "tts-" \o APP_ENV
INTERNAL_TOKEN == "changeme"
job_key(job_id) == "job:" \o job_id
jobs_queue_key == "jobs:queue:" \o APP_ENV

\* Optional[str]: None, or a string.
Nothing == <<>>
Some(s) == <<s>>

\* No request, no response.
NoReq == [op |-> "", job_id |-> "", token |-> Nothing, status |-> "",
          error |-> Nothing]
NoResp == [code |-> 0]

\* The API has been imported and Redis is empty.
InitApi(base_url) ==
    /\ PUBLIC_BASE_URL = base_url
    /\ hashes = [k \in {job_key(j) : j \in JobIds} |-> <<>>]
    /\ lists = [k \in {jobs_queue_key} |-> <<>>]
    /\ n_uuid = 0
    /\ n_calls = 0
    /\ a_pc = [h \in Handlers |-> "idle"]
    /\ a_req = [h \in Handlers |-> NoReq]
    /\ a_resp = [h \in Handlers |-> NoResp]

\* ------------------------------------------------------------ worker values
\* The number of work items followed.
MaxItems == 2
\* MAX_TEXT_LEN = int(os.getenv("MAX_TEXT_LEN", "2000")), scaled down.
MAX_TEXT_LEN == 2
S3_BUCKET == "tts-" \o APP_ENV

\* A text is the sequence of its characters; the texts of the work items are
\* all the texts of spaces and letters up to one character more than
\* MAX_TEXT_LEN.
Whitespace == {" "}
Chars == {" ", "a"}
Texts == UNION {[1..n -> Chars] : n \in 0..(MAX_TEXT_LEN + 1)}
\* The value of a field of a JSON document: a string, or a value that is not
\* a string (a number, null, a list).
Str(s) == [isstr |-> TRUE, s |-> s]
NotStr == [isstr |-> FALSE, s |-> <<>>]
TextValues == {Str(s) : s \in Texts} \cup {NotStr}

\* The JSON documents a work item may hold: with or without text, with or
\* without bucket and mp3_key, with or without job_id.
Docs ==
    {[job_id |-> "j1"]}
    \cup {[job_id |-> "j1", text |-> t] : t \in TextValues}
    \cup {[job_id |-> "j1", text |-> t, bucket |-> "tts-other",
           mp3_key |-> "other.mp3"] : t \in TextValues}
    \cup {[text |-> t] : t \in TextValues}
\* A work item is the text of a JSON object, or a text that json.loads or
\* job["job_id"] rejects.
NotJson == [json |-> FALSE, doc |-> <<>>]
WorkItems == {[json |-> TRUE, doc |-> d] : d \in Docs} \cup {NotJson}

\* The worker has started and waits for its first work item.
InitWorker ==
    /\ w_pc = "blpop"
    /\ raw = NotJson
    /\ w_items = 0
    /\ w_exc = ""
    /\ w_log = <<>>

\* The specifications of the other programs do not follow the start-up of
\* the broker, nor the TTS services.
\* run_piper_to_wav: the values of the model.
PIPER_MODEL_PATH == "/models/en_GB-alan-medium.onnx"
PIPER_LENGTH_SCALE == "1.0"
wav_path == "j1.wav"
\* The size a WAV file has to exceed, and the number of characters of stderr
\* that are kept.
MinWavSize == 1000
StderrKept == 400
\* stderr of a command: which run wrote it and how many characters it has.
Stderrs(i) == {[of |-> i, len |-> n] : n \in {StderrKept, StderrKept + 1}}
NoStderr == [of |-> 0, len |-> 0]
\* A file: whether it exists and its size in bytes.
NoFile == [exists |-> FALSE, size |-> 0]
File(n) == [exists |-> TRUE, size |-> n]
\* What a command does to the file at wav_path: nothing, or it writes a file
\* of some size.
Writes == {NoFile, File(MinWavSize), File(MinWavSize + 1)}

InitPiper(found) ==
    /\ piper_in_PATH = found
    /\ q_pc = "which"
    /\ runs = <<>>
    /\ wav = NoFile
    /\ last_err = NoStderr
    /\ q_exc = <<>>

\* The web player: the values of the model.
web_S3_BUCKET == "tts-" \o APP_ENV
\* key = f"{job_id}.mp3"
S3Key(job_id) == job_id \o ".mp3"
\* The objects a store may hold when a request comes, each with a body of
\* its own.
StoredAt == {<<"tts-dev", "j1.mp3">>, <<"tts-dev", "j2.mp3">>,
             <<"tts-other", "j1.mp3">>, <<"tts-other", "ghost.mp3">>}
Body(at) == "ID3 " \o at[1] \o "/" \o at[2]
Stores == {[at \in S |-> Body(at)] : S \in SUBSET StoredAt}

InitMp3(store) ==
    /\ objects = store
    /\ m_pc = "idle"
    /\ m_job_id = ""
    /\ m_get = <<>>
    /\ m_resp = NoResp

\* The worker processes, and the values of their variables when a worker
\* holds no item and waits for no response.
Workers == {"w1", "w2"}
NoItem == <<>>
NoHandler == ""

\* The workers have started.
InitWorkers ==
    /\ t_pc = [w \in Workers |-> "while"]
    /\ t_raw = [w \in Workers |-> NoItem]
    /\ t_exc = [w \in Workers |-> ""]
    /\ t_wait = [w \in Workers |-> NoHandler]
    /\ taken = <<>>
    /\ ran = [j \in JobIds |-> 0]

InitTts == InitPiper(TRUE) /\ InitMp3(<<>>) /\ InitWorkers

InitMore == InitStart(<<>>) /\ InitApi("") /\ InitWorker /\ InitTts

Init ==
    /\ session \in {1, 2}
    /\ InitWeb
    /\ InitFrame
    /\ InitPool
    /\ XPUB_VERBOSE = 0
    /\ InitBroker
    /\ InitMore

\* ------------------------------------------------------------ zmq_receiver
\* A changed RecvMsg: the error of a malformed message is counted and the
\* receiver thread ends.
RecvMsg_DiesOnError(kind, data) ==
    /\ r_pc = "recv"
    /\ nrecv < MaxMsgs
    /\ nrecv' = nrecv + 1
    /\ IF kind \in {"short", "badjson"} \/ (session = 2 /\ kind = "nonobj")
       THEN /\ r_pc' = "dead"
            /\ errors' = IF session = 2 THEN errors + 1 ELSE errors
            /\ r_msg' = NoMsg
       ELSE /\ r_pc' = "with"
            /\ errors' = errors
            /\ r_msg' = [id |-> latest_frame_seq + 1, kind |-> kind, data |-> data]
    /\ UNCHANGED <<others, mjpeg_clients, session, lock, slot_vars, c_vars>>

\* topic, header_b, jpeg_in = sub.recv_multipart(); header = json.loads(...).
\* Unpacking a message that has not three parts raises ValueError and a header
\* that is not JSON raises in json.loads. Session-01 catches nothing, so the
\* receiver thread ends. Session-02 also calls header.get(...) before taking
\* the lock, which raises AttributeError for a header that is not an object,
\* and its `except Exception` counts the error and continues with the next
\* message.
RecvMsg(kind, data) ==
    /\ r_pc = "recv"
    /\ nrecv < MaxMsgs
    /\ nrecv' = nrecv + 1
    /\ IF kind \in {"short", "badjson"} \/ (session = 2 /\ kind = "nonobj")
       THEN /\ r_pc' = IF session = 1 THEN "dead" ELSE "recv"
            /\ errors' = IF session = 2 THEN errors + 1 ELSE errors
            /\ r_msg' = NoMsg
       ELSE /\ r_pc' = "with"
            /\ errors' = errors
            /\ r_msg' = [id |-> latest_frame_seq + 1, kind |-> kind, data |-> data]
    /\ UNCHANGED <<others, mjpeg_clients, session, lock, slot_vars, c_vars>>

\* with frame_cond: (the receiver takes the lock)
RAcquire ==
    /\ r_pc = "with"
    /\ lock = Free
    /\ lock' = Receiver
    /\ r_pc' = "set_jpeg"
    /\ UNCHANGED <<others, mjpeg_clients, session, r_msg, nrecv, errors, slot_vars, c_vars>>

\* latest_jpeg = jpeg_in
RSetJpeg ==
    /\ r_pc = "set_jpeg"
    /\ latest_jpeg' = Bytes(r_msg.id, r_msg.data)
    /\ r_pc' = "set_meta"
    /\ UNCHANGED <<others, mjpeg_clients, session, r_msg, nrecv, errors, lock, latest_meta,
                   latest_frame_seq, c_vars>>

\* latest_meta = {"frame_id": header.get("frame_id"), ...}
\* header.get raises AttributeError when the header is not an object; this is
\* reached in session-01 only, where the exception leaves the with block
\* (releasing the lock) and ends the thread.
RSetMeta ==
    /\ r_pc = "set_meta"
    /\ IF r_msg.kind = "obj"
       THEN /\ latest_meta' = r_msg.id
            /\ r_pc' = "inc_seq"
            /\ UNCHANGED <<lock, r_msg>>
       ELSE /\ lock' = Free
            /\ r_pc' = "dead"
            /\ r_msg' = NoMsg
            /\ UNCHANGED latest_meta
    /\ UNCHANGED <<others, mjpeg_clients, session, nrecv, errors, latest_jpeg, latest_frame_seq,
                   c_vars>>

\* A changed RIncSeq: the sequence number is kept in one bit and wraps.
RIncSeq_Wraps ==
    /\ r_pc = "inc_seq"
    /\ latest_frame_seq' = (latest_frame_seq + 1) % 2
    /\ r_pc' = "notify"
    /\ UNCHANGED <<others, mjpeg_clients, session, r_msg, nrecv, errors, lock, latest_jpeg,
                   latest_meta, c_vars>>

\* latest_frame_seq += 1
RIncSeq ==
    /\ r_pc = "inc_seq"
    /\ latest_frame_seq' = latest_frame_seq + 1
    /\ r_pc' = "notify"
    /\ UNCHANGED <<others, mjpeg_clients, session, r_msg, nrecv, errors, lock, latest_jpeg,
                   latest_meta, c_vars>>

\* frame_cond.notify_all(): every generator blocked in wait() is woken and
\* has to take the lock again before it returns from wait(). The with block
\* ends right after it: the lock is released and the loop goes on.
\* A changed Woken: the update notifies nobody.
Woken_None(pcs) == pcs

Woken(pcs) == [c \in Cursors |-> IF pcs[c] = "waiting" THEN "reacquire" ELSE pcs[c]]

RNotify ==
    /\ r_pc = "notify"
    /\ c_pc' = Woken(c_pc)
    /\ lock' = Free
    /\ r_pc' = "recv"
    /\ r_msg' = NoMsg
    /\ UNCHANGED <<others, mjpeg_clients, session, nrecv, errors, slot_vars, last_sent_seq, jpeg,
                   expired, born>>

zmq_receiver ==
    \/ \E kind \in Kinds, data \in Payloads : RecvMsg(kind, data)
    \/ RAcquire
    \/ RSetJpeg
    \/ RSetMeta
    \/ RIncSeq
    \/ RNotify

\* ------------------------------------------------------------ stream_mjpg
\* MJPEG_CLIENTS.labels(OBS_SERVICE, OBS_INSTANCE).inc() and .dec(), which
\* session-02 calls when the generator starts and in its `finally`.
\* Session-01 has no gauge.
Inc(g) == IF session = 2 THEN g + 1 ELSE g
Dec(g) == IF session = 2 THEN g - 1 ELSE g

\* GET /stream.mjpg: stream_mjpg() returns gen() and the server asks it for
\* its first item: last_sent_seq = -1, and the generator reaches `while True`.
Connect(c) ==
    /\ c_pc[c] = "idle"
    /\ c_pc' = [c_pc EXCEPT ![c] = "loop"]
    /\ last_sent_seq' = [last_sent_seq EXCEPT ![c] = InitialLastSent]
    /\ born' = [born EXCEPT ![c] = latest_frame_seq]
    /\ mjpeg_clients' = Inc(mjpeg_clients)
    /\ UNCHANGED <<others, session, r_vars, lock, slot_vars, jpeg, expired>>

\* with frame_cond: (the generator takes the lock); wait_for starts its clock.
CAcquire(c) ==
    /\ c_pc[c] = "loop"
    /\ lock = Free
    /\ lock' = c
    /\ c_pc' = [c_pc EXCEPT ![c] = "check"]
    /\ expired' = [expired EXCEPT ![c] = FALSE]
    /\ UNCHANGED <<others, mjpeg_clients, session, r_vars, slot_vars, last_sent_seq, jpeg, born>>

\* lambda: latest_jpeg is not None and latest_frame_seq != last_sent_seq
Predicate(c) == ~latest_jpeg.isNone /\ latest_frame_seq # last_sent_seq[c]

\* Condition.wait_for(predicate, timeout=2.0) with the lock held: while the
\* predicate is false and the timeout has not run out it calls wait(), which
\* releases the lock and blocks.
CWait(c) ==
    /\ c_pc[c] = "check"
    /\ lock = c
    /\ ~Predicate(c)
    /\ ~expired[c]
    /\ c_pc' = [c_pc EXCEPT ![c] = "waiting"]
    /\ lock' = Free
    /\ UNCHANGED <<others, mjpeg_clients, session, r_vars, slot_vars, last_sent_seq, jpeg, expired,
                   born>>

\* wait() ends because the two seconds are over.
Timeout(c) ==
    /\ c_pc[c] = "waiting"
    /\ c_pc' = [c_pc EXCEPT ![c] = "reacquire"]
    /\ expired' = [expired EXCEPT ![c] = TRUE]
    /\ UNCHANGED <<others, mjpeg_clients, session, r_vars, lock, slot_vars, last_sent_seq, jpeg,
                   born>>

\* wait() takes the lock again before it returns; the two seconds may have
\* run out in the meantime.
CReacquire(c, late) ==
    /\ c_pc[c] = "reacquire"
    /\ lock = Free
    /\ lock' = c
    /\ c_pc' = [c_pc EXCEPT ![c] = "check"]
    /\ expired' = [expired EXCEPT ![c] = expired[c] \/ late]
    /\ UNCHANGED <<others, mjpeg_clients, session, r_vars, slot_vars, last_sent_seq, jpeg, born>>

\* wait_for has returned (its result is not looked at), and
\*     if latest_jpeg is None: continue
\* leaves the with block: the lock is released and the loop goes round.
CContinue(c) ==
    /\ c_pc[c] = "check"
    /\ lock = c
    /\ Predicate(c) \/ expired[c]
    /\ latest_jpeg.isNone
    /\ lock' = Free
    /\ c_pc' = [c_pc EXCEPT ![c] = "loop"]
    /\ expired' = [expired EXCEPT ![c] = FALSE]
    /\ UNCHANGED <<others, mjpeg_clients, session, r_vars, slot_vars, last_sent_seq, jpeg, born>>

\* A changed CCopy: the sequence number is taken, the payload is not.
CCopy_SeqOnly(c) ==
    /\ c_pc[c] = "check"
    /\ lock = c
    /\ Predicate(c) \/ expired[c]
    /\ ~latest_jpeg.isNone
    /\ last_sent_seq' = [last_sent_seq EXCEPT ![c] = latest_frame_seq]
    /\ lock' = Free
    /\ c_pc' = [c_pc EXCEPT ![c] = "yield"]
    /\ expired' = [expired EXCEPT ![c] = FALSE]
    /\ UNCHANGED <<others, mjpeg_clients, session, r_vars, slot_vars, born, jpeg>>

\* A changed CCopy: the cursor is set one behind the sequence number.
CCopy_OffByOne(c) ==
    /\ c_pc[c] = "check"
    /\ lock = c
    /\ Predicate(c) \/ expired[c]
    /\ ~latest_jpeg.isNone
    /\ jpeg' = [jpeg EXCEPT ![c] = latest_jpeg]
    /\ last_sent_seq' = [last_sent_seq EXCEPT ![c] = latest_frame_seq - 1]
    /\ lock' = Free
    /\ c_pc' = [c_pc EXCEPT ![c] = "yield"]
    /\ expired' = [expired EXCEPT ![c] = FALSE]
    /\ UNCHANGED <<others, mjpeg_clients, session, r_vars, slot_vars, born>>

\* A changed CCopy: the payload is taken, the cursor is not advanced.
CCopy_KeepsSeq(c) ==
    /\ c_pc[c] = "check"
    /\ lock = c
    /\ Predicate(c) \/ expired[c]
    /\ ~latest_jpeg.isNone
    /\ jpeg' = [jpeg EXCEPT ![c] = latest_jpeg]
    /\ lock' = Free
    /\ c_pc' = [c_pc EXCEPT ![c] = "yield"]
    /\ expired' = [expired EXCEPT ![c] = FALSE]
    /\ UNCHANGED <<others, mjpeg_clients, session, r_vars, slot_vars, born, last_sent_seq>>

\* A changed CCopy: the yields are inside the with block, the lock is kept.
CCopy_HoldsLock(c) ==
    /\ c_pc[c] = "check"
    /\ lock = c
    /\ Predicate(c) \/ expired[c]
    /\ ~latest_jpeg.isNone
    /\ jpeg' = [jpeg EXCEPT ![c] = latest_jpeg]
    /\ last_sent_seq' = [last_sent_seq EXCEPT ![c] = latest_frame_seq]
    /\ c_pc' = [c_pc EXCEPT ![c] = "yield"]
    /\ expired' = [expired EXCEPT ![c] = FALSE]
    /\ UNCHANGED <<others, mjpeg_clients, session, r_vars, slot_vars, born, lock>>

\* A changed CCopy: the slot is not tested for None.
CCopy_NoneToo(c) ==
    /\ c_pc[c] = "check"
    /\ lock = c
    /\ Predicate(c) \/ expired[c]
    /\ jpeg' = [jpeg EXCEPT ![c] = latest_jpeg]
    /\ last_sent_seq' = [last_sent_seq EXCEPT ![c] = latest_frame_seq]
    /\ lock' = Free
    /\ c_pc' = [c_pc EXCEPT ![c] = "yield"]
    /\ expired' = [expired EXCEPT ![c] = FALSE]
    /\ UNCHANGED <<others, mjpeg_clients, session, r_vars, slot_vars, born>>

\* wait_for has returned (its result is not looked at), and
\*     jpeg = latest_jpeg; last_sent_seq = latest_frame_seq
\* then the with block ends (lock released), part_header is built and the
\* generator yields the part: it is suspended at `yield part_header`, then at
\* `yield jpeg`, then at `yield b"\r\n"`.
CCopy(c) ==
    /\ c_pc[c] = "check"
    /\ lock = c
    /\ Predicate(c) \/ expired[c]
    /\ ~latest_jpeg.isNone
    /\ jpeg' = [jpeg EXCEPT ![c] = latest_jpeg]
    /\ last_sent_seq' = [last_sent_seq EXCEPT ![c] = latest_frame_seq]
    /\ lock' = Free
    /\ c_pc' = [c_pc EXCEPT ![c] = "yield"]
    /\ expired' = [expired EXCEPT ![c] = FALSE]
    /\ UNCHANGED <<others, mjpeg_clients, session, r_vars, slot_vars, born>>

\* The server has taken the three items of the part and asks for the next
\* one: the generator goes round `while True`.
CResume(c) ==
    /\ c_pc[c] = "yield"
    /\ c_pc' = [c_pc EXCEPT ![c] = "loop"]
    /\ UNCHANGED <<others, mjpeg_clients, session, r_vars, lock, slot_vars, last_sent_seq, jpeg,
                   expired, born>>

\* A changed CClose: the gauge is not taken back when the client goes away.
CClose_KeepsCount(c) ==
    /\ c_pc[c] \in YieldPcs
    /\ c_pc' = [c_pc EXCEPT ![c] = "closed"]
    /\ last_sent_seq' = [last_sent_seq EXCEPT ![c] = InitialLastSent]
    /\ jpeg' = [jpeg EXCEPT ![c] = None]
    /\ born' = [born EXCEPT ![c] = InitialLastSent]
    /\ UNCHANGED <<others, mjpeg_clients, session, r_vars, lock, slot_vars,
                   expired>>

\* The client of the stream is gone and the server closes the generator.
\* close() raises GeneratorExit at the yield the generator is suspended at
\* (`except GeneratorExit: return`). It cannot reach a generator that is
\* running, that is, one inside the with block or wait_for. `finally` takes the
\* gauge back.
CClose(c) ==
    /\ c_pc[c] \in YieldPcs
    /\ c_pc' = [c_pc EXCEPT ![c] = "closed"]
    /\ last_sent_seq' = [last_sent_seq EXCEPT ![c] = InitialLastSent]
    /\ jpeg' = [jpeg EXCEPT ![c] = None]
    /\ born' = [born EXCEPT ![c] = InitialLastSent]
    /\ mjpeg_clients' = Dec(mjpeg_clients)
    /\ UNCHANGED <<others, session, r_vars, lock, slot_vars, expired>>

\* A changed CFail: the failing generator takes the frame with it.
CFail_ClearsSlot(c) ==
    /\ c_pc[c] = "check"
    /\ lock = c
    /\ Predicate(c) \/ expired[c]
    /\ ~latest_jpeg.isNone
    /\ lock' = Free
    /\ c_pc' = [c_pc EXCEPT ![c] = "closed"]
    /\ expired' = [expired EXCEPT ![c] = FALSE]
    /\ last_sent_seq' = [last_sent_seq EXCEPT ![c] = InitialLastSent]
    /\ jpeg' = [jpeg EXCEPT ![c] = None]
    /\ born' = [born EXCEPT ![c] = InitialLastSent]
    /\ mjpeg_clients' = Dec(mjpeg_clients)
    /\ latest_jpeg' = None
    /\ UNCHANGED <<others, session, r_vars, latest_meta, latest_frame_seq>>

\* An exception inside the try block: the generator has copied the slot and
\* left the with block (lock released), and building part_header raises
\* (MemoryError, say) before the first yield of the part. `except Exception:
\* return` ends the generator and `finally` takes the gauge back.
CFail(c) ==
    /\ c_pc[c] = "check"
    /\ lock = c
    /\ Predicate(c) \/ expired[c]
    /\ ~latest_jpeg.isNone
    /\ lock' = Free
    /\ c_pc' = [c_pc EXCEPT ![c] = "closed"]
    /\ expired' = [expired EXCEPT ![c] = FALSE]
    /\ last_sent_seq' = [last_sent_seq EXCEPT ![c] = InitialLastSent]
    /\ jpeg' = [jpeg EXCEPT ![c] = None]
    /\ born' = [born EXCEPT ![c] = InitialLastSent]
    /\ mjpeg_clients' = Dec(mjpeg_clients)
    /\ UNCHANGED <<others, session, r_vars, slot_vars>>

gen(c) ==
    \/ CAcquire(c)
    \/ CWait(c)
    \/ Timeout(c)
    \/ \E late \in BOOLEAN : CReacquire(c, late)
    \/ CContinue(c)
    \/ CCopy(c)
    \/ CResume(c)
    \/ CClose(c)
    \/ CFail(c)

\* ------------------------------------------------------------ frame
\* GET /frame.jpg. The handler is the same in session-01 and session-02
\* web_server.py and in session-01 node_c.py, whose receiver is the
\* session-01 one without sequence number and notification.

\* Payload bytes of the frames received while snapshots are taken: a frame
\* can carry an empty byte string.
SnapPayloads == {<<>>, <<1>>}

\* A changed Not: only None counts as false.
Not_NoneOnly(d) == d.isNone

\* Python's `not data`: None and the empty byte string are false.
Not(d) == d.isNone \/ d.data = <<>>

\*     with lock:
\*         data = latest_jpeg
frame_read ==
    /\ f_pc = "idle"
    /\ lock = Free
    /\ f_data' = latest_jpeg
    /\ f_pc' = "read"
    /\ UNCHANGED <<web_vars, f_resp, p_vars, b_vars, more_vars>>

\*     if not data:
\*         return HTTPResponse("No frame yet", status=503)
\*     response.content_type = "image/jpeg"; ...; return data
frame_return ==
    /\ f_pc = "read"
    /\ f_resp' = IF Not(f_data) THEN NoFrameYet ELSE Ok(f_data)
    /\ f_pc' = "done"
    /\ UNCHANGED <<web_vars, f_data, p_vars, b_vars, more_vars>>

\* The response has gone out; the next GET /frame.jpg can come.
frame_next ==
    /\ f_pc = "done"
    /\ f_pc' = "idle"
    /\ f_data' = None
    /\ f_resp' = NoResponse
    /\ UNCHANGED <<web_vars, p_vars, b_vars, more_vars>>

frame ==
    \/ frame_read
    \/ frame_return
    \/ frame_next

\* The receiver and the snapshot requests made while it runs.
SnapNext ==
    \/ \E kind \in Kinds, data \in SnapPayloads : RecvMsg(kind, data)
    \/ RAcquire
    \/ RSetJpeg
    \/ RSetMeta
    \/ RIncSeq
    \/ RNotify
    \/ frame

SnapSpec == Init /\ [][SnapNext]_vars

\* ------------------------------------------------------------ serve
\* main(): serve(app, host=HTTP_HOST, port=HTTP_PORT, threads=HTTP_THREADS).
\* The server keeps HTTP_THREADS worker threads. An accepted request waits in
\* a queue until a worker thread is idle; the thread calls the handler and
\* writes out what it returns, item by item when it is a generator, and takes
\* the next request only when the response is complete.
Paths == {"/frame.jpg", "/stream.mjpg"}

\* A client makes request r, which the server accepts and queues.
Request(r, path) ==
    /\ p_path[r] = ""
    /\ \A q \in Reqs : q < r => p_path[q] # ""
    /\ p_path' = [p_path EXCEPT ![r] = path]
    /\ p_queue' = Append(p_queue, r)
    /\ UNCHANGED <<web_vars, f_vars, p_worker, p_done, p_parts, b_vars, more_vars>>

\* An idle worker thread takes the oldest queued request and calls its handler.
Take(t) ==
    /\ p_worker[t] = 0
    /\ p_queue # <<>>
    /\ p_worker' = [p_worker EXCEPT ![t] = Head(p_queue)]
    /\ p_queue' = Tail(p_queue)
    /\ UNCHANGED <<web_vars, f_vars, p_path, p_done, p_parts, b_vars, more_vars>>

\* frame() has returned and its response is written: the thread is idle again.
Finish(t) ==
    /\ p_worker[t] # 0
    /\ p_path[p_worker[t]] = "/frame.jpg"
    /\ p_done' = p_done \cup {p_worker[t]}
    /\ p_worker' = [p_worker EXCEPT ![t] = 0]
    /\ UNCHANGED <<web_vars, f_vars, p_path, p_queue, p_parts, b_vars, more_vars>>

\* The response of stream_mjpg() is gen(), whose loop is `while True`: the
\* thread goes on taking parts from the generator and writing them.
StreamPart(t) ==
    /\ p_worker[t] # 0
    /\ p_path[p_worker[t]] = "/stream.mjpg"
    /\ p_parts' = [p_parts EXCEPT ![t] = 1 - @]
    /\ UNCHANGED <<web_vars, f_vars, p_path, p_queue, p_worker, p_done, b_vars, more_vars>>

\* The client of a stream goes away and the generator is closed: that is the
\* only end of a streaming response.
Hangup(t) ==
    /\ p_worker[t] # 0
    /\ p_path[p_worker[t]] = "/stream.mjpg"
    /\ p_done' = p_done \cup {p_worker[t]}
    /\ p_worker' = [p_worker EXCEPT ![t] = 0]
    /\ p_parts' = [p_parts EXCEPT ![t] = 0]
    /\ UNCHANGED <<web_vars, f_vars, p_path, p_queue, b_vars, more_vars>>

\* A worker thread has called the handler of request r.
Served(r) == r \in p_done \/ \E t \in Threads : p_worker[t] = r

PoolNext ==
    \/ \E r \in Reqs, path \in Paths : Request(r, path)
    \/ \E t \in Threads : Take(t)
    \/ \E t \in Threads : Finish(t)
    \/ \E t \in Threads : StreamPart(t)
    \/ \E t \in Threads : Hangup(t)

\* Session-02 with nothing but its HTTP server looked at.
PoolInit ==
    /\ session = 2
    /\ InitWeb
    /\ InitFrame
    /\ InitPool
    /\ XPUB_VERBOSE = 0
    /\ InitBroker
    /\ InitMore

\* An idle worker thread takes a queued request, frame() returns, and a
\* stream goes on writing parts. A streaming client may stay connected for
\* ever.
PoolSpec ==
    /\ PoolInit
    /\ [][PoolNext]_vars
    /\ \A t \in Threads :
        WF_vars(Take(t)) /\ WF_vars(Finish(t)) /\ WF_vars(StreamPart(t))

\* ------------------------------------------------------------ broker
\* projects/session-02/python/broker/broker.py: main().

\* The loop has neither been stopped nor ended by an exception; the finally
\* clause closes both sockets when it has.
Running == b_pc \notin {"stopped", "raised"}

\* len(p) of the segments the model sends.
SegLen == [x |-> 1, y |-> 1, meta |-> 4, payload |-> 7, processed |-> 9]

\* total_bytes = sum(len(p) for p in msg) if msg else 0
RECURSIVE TotalBytes(_)
TotalBytes(m) ==
    IF m = <<>> THEN 0 ELSE SegLen[Head(m)] + TotalBytes(Tail(m))

\* sub_bytes = sum(len(p) for p in sub_msg) if sub_msg else 0; a part of a
\* subscription message is the byte 0x00 or 0x01 followed by the topic.
RECURSIVE SubBytes(_)
SubBytes(m) ==
    IF m = <<>> THEN 0 ELSE 1 + SegLen[Head(m)[2]] + SubBytes(Tail(m))

\* A frame sent by a publisher reaches the XSUB socket, which queues it whole.
FrameArrives(f) ==
    /\ Running
    /\ Len(xsub_read) + Len(xsub_in) < MaxFrames
    /\ xsub_in' = Append(xsub_in, f)
    /\ UNCHANGED <<web_vars, f_vars, p_vars, more_vars, XPUB_VERBOSE, b_pc,
                   events, xpub_in, subscribers, msg, sub_msg, xpub_out,
                   xsub_out, b_errors, printed, xsub_read, xpub_read,
                   xpub_alt, n_intents, closed, FRAMES_IN, FRAMES_OUT,
                   BYTES_IN, BYTES_OUT>>

\* What xpub.setsockopt(zmq.XPUB_VERBOSE, 1) changes: the XPUB socket hands a
\* subscribe message to the application when the topic had no subscriber,
\* and an unsubscribe message when the topic has none left; with the option
\* set it hands over every subscribe message.
Passes(verbose, op, first_or_last) == first_or_last \/ (op = 1 /\ verbose # 0)

\* Consumer k subscribes to (op = 1) or unsubscribes from (op = 0) topic t.
IntentArrives(k, op, t) ==
    /\ Running
    /\ n_intents < MaxIntents
    /\ n_intents' = n_intents + 1
    /\ IF op = 1 THEN k \notin subscribers[t] ELSE k \in subscribers[t]
    /\ subscribers' = [subscribers EXCEPT ![t] =
                          IF op = 1 THEN @ \cup {k} ELSE @ \ {k}]
    /\ LET first_or_last == IF op = 1 THEN subscribers[t] = {}
                                      ELSE subscribers[t] = {k}
       IN /\ xpub_in' = IF Passes(XPUB_VERBOSE, op, first_or_last)
                        THEN Append(xpub_in, SubMsg(op, t)) ELSE xpub_in
          /\ xpub_alt' = IF Passes(1 - XPUB_VERBOSE, op, first_or_last)
                         THEN Append(xpub_alt, SubMsg(op, t)) ELSE xpub_alt
    /\ UNCHANGED <<web_vars, f_vars, p_vars, more_vars, XPUB_VERBOSE, b_pc,
                   events, xsub_in, msg, sub_msg, xpub_out, xsub_out,
                   b_errors, printed, xsub_read, xpub_read, closed, FRAMES_IN,
                   FRAMES_OUT, BYTES_IN, BYTES_OUT>>

\* A changed poll: the egress side is looked at only when the ingress side
\* has nothing to read.
poll_DataFirst ==
    /\ b_pc = "poll"
    /\ xsub_in # <<>> \/ xpub_in # <<>>
    /\ events' = IF xsub_in # <<>> THEN {"xsub"} ELSE {"xpub"}
    /\ b_pc' = "if_xsub"
    /\ UNCHANGED <<web_vars, f_vars, p_vars, more_vars, XPUB_VERBOSE, xsub_in,
                   xpub_in, subscribers, msg, sub_msg, xpub_out, xsub_out,
                   b_errors, printed, xsub_read, xpub_read, xpub_alt,
                   n_intents, closed, FRAMES_IN, FRAMES_OUT, BYTES_IN,
                   BYTES_OUT>>

\* events = dict(poller.poll(250)). A poll that times out with nothing
\* readable makes both ifs false and the loop polls again: no change of state.
poll ==
    /\ b_pc = "poll"
    /\ xsub_in # <<>> \/ xpub_in # <<>>
    /\ events' = {s \in {"xsub", "xpub"} :
                    \/ s = "xsub" /\ xsub_in # <<>>
                    \/ s = "xpub" /\ xpub_in # <<>>}
    /\ b_pc' = "if_xsub"
    /\ UNCHANGED <<web_vars, f_vars, p_vars, more_vars, XPUB_VERBOSE, xsub_in,
                   xpub_in, subscribers, msg, sub_msg, xpub_out, xsub_out,
                   b_errors, printed, xsub_read, xpub_read, xpub_alt,
                   n_intents, closed, FRAMES_IN, FRAMES_OUT, BYTES_IN,
                   BYTES_OUT>>

\* if xsub in events: msg = xsub.recv_multipart()
recv_xsub ==
    /\ b_pc = "if_xsub"
    /\ "xsub" \in events
    /\ msg' = Head(xsub_in)
    /\ xsub_in' = Tail(xsub_in)
    /\ xsub_read' = Append(xsub_read, Head(xsub_in))
    /\ b_pc' = "count_in_xsub"
    /\ UNCHANGED <<web_vars, f_vars, p_vars, more_vars, XPUB_VERBOSE, events,
                   xpub_in, subscribers, sub_msg, xpub_out, xsub_out,
                   b_errors, printed, xpub_read, xpub_alt, n_intents, closed,
                   FRAMES_IN, FRAMES_OUT, BYTES_IN, BYTES_OUT>>

\* FRAMES_IN.labels(SERVICE, "xsub_in").inc() and
\* BYTES_IN.labels(SERVICE, "xsub_in").inc(total_bytes)
count_in_xsub ==
    /\ b_pc = "count_in_xsub"
    /\ FRAMES_IN' = [FRAMES_IN EXCEPT !.xsub_in = @ + 1]
    /\ BYTES_IN' = [BYTES_IN EXCEPT !.xsub_in = @ + TotalBytes(msg)]
    /\ b_pc' = "send_xpub"
    /\ UNCHANGED <<web_vars, f_vars, p_vars, more_vars, XPUB_VERBOSE, events,
                   xsub_in, xpub_in, subscribers, msg, sub_msg, xpub_out,
                   xsub_out, b_errors, printed, xsub_read, xpub_read,
                   xpub_alt, n_intents, closed, FRAMES_OUT, BYTES_OUT>>

\* if xsub in events: is false.
skip_xsub ==
    /\ b_pc = "if_xsub"
    /\ "xsub" \notin events
    /\ b_pc' = "if_xpub"
    /\ UNCHANGED <<web_vars, f_vars, p_vars, more_vars, XPUB_VERBOSE, events,
                   xsub_in, xpub_in, subscribers, msg, sub_msg, xpub_out,
                   xsub_out, b_errors, printed, xsub_read, xpub_read,
                   xpub_alt, n_intents, closed, FRAMES_IN, FRAMES_OUT,
                   BYTES_IN, BYTES_OUT>>

\* A changed send_xpub: only the topic segment is written.
send_xpub_TopicOnly ==
    /\ b_pc = "send_xpub"
    /\ IF msg = <<>>
       THEN /\ b_errors' = b_errors + 1
            /\ b_pc' = "raised"
            /\ closed' = {"xsub", "xpub"}
            /\ UNCHANGED xpub_out
       ELSE /\ xpub_out' = Append(xpub_out, <<msg[1]>>)
            /\ b_pc' = "count_out_xpub"
            /\ UNCHANGED <<b_errors, closed>>
    /\ UNCHANGED <<web_vars, f_vars, p_vars, more_vars, XPUB_VERBOSE, events,
                   xsub_in, xpub_in, subscribers, msg, sub_msg, xsub_out,
                   printed, xsub_read, xpub_read, xpub_alt, n_intents,
                   FRAMES_IN, FRAMES_OUT, BYTES_IN, BYTES_OUT>>

\* A changed send_xpub: the frame is written twice.
send_xpub_Twice ==
    /\ b_pc = "send_xpub"
    /\ IF msg = <<>>
       THEN /\ b_errors' = b_errors + 1
            /\ b_pc' = "raised"
            /\ closed' = {"xsub", "xpub"}
            /\ UNCHANGED xpub_out
       ELSE /\ xpub_out' = xpub_out \o <<msg, msg>>
            /\ b_pc' = "count_out_xpub"
            /\ UNCHANGED <<b_errors, closed>>
    /\ UNCHANGED <<web_vars, f_vars, p_vars, more_vars, XPUB_VERBOSE, events,
                   xsub_in, xpub_in, subscribers, msg, sub_msg, xsub_out,
                   printed, xsub_read, xpub_read, xpub_alt, n_intents,
                   FRAMES_IN, FRAMES_OUT, BYTES_IN, BYTES_OUT>>

\* xpub.send_multipart(msg). send_multipart sends all parts but the last
\* with SNDMORE and then msg_parts[-1]: for a message of no part that is an
\* IndexError, which `except Exception` counts in ERRORS and raises again, so
\* main() ends after finally has closed the sockets.
send_xpub ==
    /\ b_pc = "send_xpub"
    /\ IF msg = <<>>
       THEN /\ b_errors' = b_errors + 1
            /\ b_pc' = "raised"
            /\ closed' = {"xsub", "xpub"}
            /\ UNCHANGED xpub_out
       ELSE /\ xpub_out' = Append(xpub_out, msg)
            /\ b_pc' = "count_out_xpub"
            /\ UNCHANGED <<b_errors, closed>>
    /\ UNCHANGED <<web_vars, f_vars, p_vars, more_vars, XPUB_VERBOSE, events,
                   xsub_in, xpub_in, subscribers, msg, sub_msg, xsub_out,
                   printed, xsub_read, xpub_read, xpub_alt, n_intents,
                   FRAMES_IN, FRAMES_OUT, BYTES_IN, BYTES_OUT>>

\* A changed count_out_xpub: FRAMES_OUT counts the segments sent.
count_out_xpub_CountsSegments ==
    /\ b_pc = "count_out_xpub"
    /\ FRAMES_OUT' = [FRAMES_OUT EXCEPT !.xpub_out = @ + Len(msg)]
    /\ BYTES_OUT' = [BYTES_OUT EXCEPT !.xpub_out = @ + TotalBytes(msg)]
    /\ b_pc' = "if_xpub"
    /\ UNCHANGED <<web_vars, f_vars, p_vars, more_vars, XPUB_VERBOSE, events,
                   xsub_in, xpub_in, subscribers, msg, sub_msg, xpub_out,
                   xsub_out, b_errors, printed, xsub_read, xpub_read,
                   xpub_alt, n_intents, closed, FRAMES_IN, BYTES_IN>>

\* FRAMES_OUT.labels(SERVICE, "xpub_out").inc() and
\* BYTES_OUT.labels(SERVICE, "xpub_out").inc(total_bytes)
count_out_xpub ==
    /\ b_pc = "count_out_xpub"
    /\ FRAMES_OUT' = [FRAMES_OUT EXCEPT !.xpub_out = @ + 1]
    /\ BYTES_OUT' = [BYTES_OUT EXCEPT !.xpub_out = @ + TotalBytes(msg)]
    /\ b_pc' = "if_xpub"
    /\ UNCHANGED <<web_vars, f_vars, p_vars, more_vars, XPUB_VERBOSE, events,
                   xsub_in, xpub_in, subscribers, msg, sub_msg, xpub_out,
                   xsub_out, b_errors, printed, xsub_read, xpub_read,
                   xpub_alt, n_intents, closed, FRAMES_IN, BYTES_IN>>

\* if xpub in events: sub_msg = xpub.recv_multipart()
recv_xpub ==
    /\ b_pc = "if_xpub"
    /\ "xpub" \in events
    /\ sub_msg' = Head(xpub_in)
    /\ xpub_in' = Tail(xpub_in)
    /\ xpub_read' = Append(xpub_read, Head(xpub_in))
    /\ b_pc' = "count_in_subs"
    /\ UNCHANGED <<web_vars, f_vars, p_vars, more_vars, XPUB_VERBOSE, events,
                   xsub_in, subscribers, msg, xpub_out, xsub_out, b_errors,
                   printed, xsub_read, xpub_alt, n_intents, closed, FRAMES_IN,
                   FRAMES_OUT, BYTES_IN, BYTES_OUT>>

\* FRAMES_IN.labels(SERVICE, "subs").inc() and
\* BYTES_IN.labels(SERVICE, "subs").inc(sub_bytes)
count_in_subs ==
    /\ b_pc = "count_in_subs"
    /\ FRAMES_IN' = [FRAMES_IN EXCEPT !.subs = @ + 1]
    /\ BYTES_IN' = [BYTES_IN EXCEPT !.subs = @ + SubBytes(sub_msg)]
    /\ b_pc' = "send_xsub"
    /\ UNCHANGED <<web_vars, f_vars, p_vars, more_vars, XPUB_VERBOSE, events,
                   xsub_in, xpub_in, subscribers, msg, sub_msg, xpub_out,
                   xsub_out, b_errors, printed, xsub_read, xpub_read,
                   xpub_alt, n_intents, closed, FRAMES_OUT, BYTES_OUT>>

\* if xpub in events: is false; the iteration is over.
skip_xpub ==
    /\ b_pc = "if_xpub"
    /\ "xpub" \notin events
    /\ b_pc' = "poll"
    /\ UNCHANGED <<web_vars, f_vars, p_vars, more_vars, XPUB_VERBOSE, events,
                   xsub_in, xpub_in, subscribers, msg, sub_msg, xpub_out,
                   xsub_out, b_errors, printed, xsub_read, xpub_read,
                   xpub_alt, n_intents, closed, FRAMES_IN, FRAMES_OUT,
                   BYTES_IN, BYTES_OUT>>

\* A changed send_xsub: every message goes out as an unsubscribe message.
send_xsub_Unsubscribes ==
    /\ b_pc = "send_xsub"
    /\ xsub_out' = Append(xsub_out, SubMsg(0, sub_msg[1][2]))
    /\ b_pc' = "count_out_subs"
    /\ UNCHANGED <<web_vars, f_vars, p_vars, more_vars, XPUB_VERBOSE, events,
                   xsub_in, xpub_in, subscribers, msg, sub_msg, xpub_out,
                   b_errors, printed, xsub_read, xpub_read, xpub_alt,
                   n_intents, closed, FRAMES_IN, FRAMES_OUT, BYTES_IN,
                   BYTES_OUT>>

\* xsub.send_multipart(sub_msg)
send_xsub ==
    /\ b_pc = "send_xsub"
    /\ xsub_out' = Append(xsub_out, sub_msg)
    /\ b_pc' = "count_out_subs"
    /\ UNCHANGED <<web_vars, f_vars, p_vars, more_vars, XPUB_VERBOSE, events,
                   xsub_in, xpub_in, subscribers, msg, sub_msg, xpub_out,
                   b_errors, printed, xsub_read, xpub_read, xpub_alt,
                   n_intents, closed, FRAMES_IN, FRAMES_OUT, BYTES_IN,
                   BYTES_OUT>>

\* FRAMES_OUT.labels(SERVICE, "subs").inc() and
\* BYTES_OUT.labels(SERVICE, "subs").inc(sub_bytes), then
\*     if XPUB_VERBOSE and sub_msg and sub_msg[0] and len(sub_msg[0]) >= 1:
\*         print(f"[{action}] topic='{topic}'")
\* which ends the iteration.
count_out_subs ==
    /\ b_pc = "count_out_subs"
    /\ FRAMES_OUT' = [FRAMES_OUT EXCEPT !.subs = @ + 1]
    /\ BYTES_OUT' = [BYTES_OUT EXCEPT !.subs = @ + SubBytes(sub_msg)]
    /\ printed' = IF XPUB_VERBOSE # 0 /\ sub_msg # <<>> /\ sub_msg[1] # <<>>
                  THEN printed + 1 ELSE printed
    /\ b_pc' = "poll"
    /\ UNCHANGED <<web_vars, f_vars, p_vars, more_vars, XPUB_VERBOSE, events,
                   xsub_in, xpub_in, subscribers, msg, sub_msg, xpub_out,
                   xsub_out, b_errors, xsub_read, xpub_read, xpub_alt,
                   n_intents, closed, FRAMES_IN, BYTES_IN>>

\* A changed ZMQError: the error is counted and the loop polls again.
ZMQError_Retries ==
    /\ \/ b_pc = "poll"
       \/ b_pc = "if_xsub" /\ "xsub" \in events
       \/ b_pc = "send_xpub" /\ msg # <<>>
       \/ b_pc = "if_xpub" /\ "xpub" \in events
       \/ b_pc = "send_xsub"
    /\ b_errors' = b_errors + 1
    /\ b_pc' = "poll"
    /\ UNCHANGED <<web_vars, f_vars, p_vars, more_vars, XPUB_VERBOSE, events,
                   xsub_in, xpub_in, subscribers, msg, sub_msg, xpub_out,
                   xsub_out, printed, xsub_read, xpub_read, xpub_alt,
                   n_intents, closed, FRAMES_IN, FRAMES_OUT, BYTES_IN,
                   BYTES_OUT>>

\* poller.poll, recv_multipart or send_multipart raises (zmq.ZMQError, say,
\* when the context is terminated or a socket is in a bad state): nothing is
\* received or sent by the failing call.
\*     except Exception as e:
\*         ERRORS.labels(SERVICE, type(e).__name__).inc()
\*         raise
\*     finally: xsub.close(0), xpub.close(0), ctx.term()
ZMQError ==
    /\ \/ b_pc = "poll"
       \/ b_pc = "if_xsub" /\ "xsub" \in events
       \/ b_pc = "send_xpub" /\ msg # <<>>
       \/ b_pc = "if_xpub" /\ "xpub" \in events
       \/ b_pc = "send_xsub"
    /\ b_errors' = b_errors + 1
    /\ b_pc' = "raised"
    /\ closed' = {"xsub", "xpub"}
    /\ UNCHANGED <<web_vars, f_vars, p_vars, more_vars, XPUB_VERBOSE, events,
                   xsub_in, xpub_in, subscribers, msg, sub_msg, xpub_out,
                   xsub_out, printed, xsub_read, xpub_read, xpub_alt,
                   n_intents, FRAMES_IN, FRAMES_OUT, BYTES_IN, BYTES_OUT>>

\* Ctrl-C: KeyboardInterrupt is raised in main() wherever it is in the loop,
\* inside a poll, recv or send call or between two statements.
\* `except KeyboardInterrupt: return 0`, and finally closes the sockets.
KeyboardInterrupt ==
    /\ Running
    /\ b_pc' = "stopped"
    /\ closed' = {"xsub", "xpub"}
    /\ UNCHANGED <<web_vars, f_vars, p_vars, more_vars, XPUB_VERBOSE, events,
                   xsub_in, xpub_in, subscribers, msg, sub_msg, xpub_out,
                   xsub_out, b_errors, printed, xsub_read, xpub_read,
                   xpub_alt, n_intents, FRAMES_IN, FRAMES_OUT, BYTES_IN,
                   BYTES_OUT>>

\* One step of `while True:` in main().
main ==
    \/ poll
    \/ recv_xsub
    \/ count_in_xsub
    \/ skip_xsub
    \/ send_xpub
    \/ count_out_xpub
    \/ recv_xpub
    \/ count_in_subs
    \/ skip_xpub
    \/ send_xsub
    \/ count_out_subs
    \/ ZMQError

BrokerNext ==
    \/ \E f \in Frames : FrameArrives(f)
    \/ \E k \in Consumers, op \in {0, 1}, t \in Topics : IntentArrives(k, op, t)
    \/ main
    \/ KeyboardInterrupt

\* The broker started with XPUB_VERBOSE unset (0) or set to 1.
BrokerInit ==
    /\ session = 2
    /\ InitWeb
    /\ InitFrame
    /\ InitPool
    /\ XPUB_VERBOSE \in {0, 1}
    /\ InitBroker
    /\ InitMore

BrokerSpec == BrokerInit /\ [][BrokerNext]_vars

\* The loop keeps running: main() is a thread of its own.
BrokerLiveSpec == BrokerSpec /\ WF_vars(main)

\* ---------------------------------------------------- broker start-up
\* projects/session-02/python/broker/broker.py, lines 55-118.

\* The texts the environment variables may hold, beside being unset.
EnvTexts == {"abc", "80.5", "", "-1", "0", "1", "8000", "65535", "65536"}
\* The environments: any of the three variables set to any of the texts.
EnvNames == {"PUB_PORT", "SUB_PORT", "METRICS_PORT"}
Environs == UNION {[D -> EnvTexts] : D \in SUBSET EnvNames}

\* The decimal texts of the integers of the model: str(n) and int(s).
Decimal == {<<"-1", -1>>, <<"0", 0>>, <<"1", 1>>, <<"8000", 8000>>,
            <<"65535", 65535>>, <<"65536", 65536>>, <<"5555", 5555>>,
            <<"5556", 5556>>, <<"9102", 9102>>}
str(n) == (CHOOSE d \in Decimal : d[2] = n)[1]
\* int(s) raises ValueError when s is not the text of an integer.
IsIntText(s) == \E d \in Decimal : d[1] = s
int(s) == (CHOOSE d \in Decimal : d[1] = s)[2]

\* os.getenv(name, default)
getenv(name, default) ==
    IF name \in DOMAIN environ THEN environ[name] ELSE default

\* try: return int(os.getenv(name, str(default)))
\* except ValueError: return default
getenv_int(name, default) ==
    LET s == getenv(name, str(default))
    IN IF IsIntText(s) THEN int(s) ELSE default

\* validate_port returns the port, or raises ValueError.
ValidPort(port) == 1 <= port /\ port <= 65535

BROKER_BIND_HOST == "0.0.0.0"
\* f"tcp://{BROKER_BIND_HOST}:{PUB_PORT}"
Address(port) == [host |-> BROKER_BIND_HOST, port |-> port]

\* PUB_PORT = validate_port(getenv_int("PUB_PORT", 5555), "PUB_PORT")
import_PUB_PORT ==
    /\ s_pc = "PUB_PORT"
    /\ LET port == getenv_int("PUB_PORT", 5555)
       IN IF ValidPort(port)
          THEN PUB_PORT' = port /\ s_pc' = "SUB_PORT"
          ELSE UNCHANGED PUB_PORT /\ s_pc' = "failed"
    /\ UNCHANGED <<web_vars, f_vars, p_vars, b_vars, a_vars, w_vars, tts_vars,
                   environ, SUB_PORT,
                   METRICS_PORT, bound>>

\* SUB_PORT = validate_port(getenv_int("SUB_PORT", 5556), "SUB_PORT")
import_SUB_PORT ==
    /\ s_pc = "SUB_PORT"
    /\ LET port == getenv_int("SUB_PORT", 5556)
       IN IF ValidPort(port)
          THEN SUB_PORT' = port /\ s_pc' = "METRICS_PORT"
          ELSE UNCHANGED SUB_PORT /\ s_pc' = "failed"
    /\ UNCHANGED <<web_vars, f_vars, p_vars, b_vars, a_vars, w_vars, tts_vars,
                   environ, PUB_PORT,
                   METRICS_PORT, bound>>

\* METRICS_PORT = validate_port(getenv_int("METRICS_PORT", 9102), ...)
import_METRICS_PORT ==
    /\ s_pc = "METRICS_PORT"
    /\ LET port == getenv_int("METRICS_PORT", 9102)
       IN IF ValidPort(port)
          THEN METRICS_PORT' = port /\ s_pc' = "bind_xsub"
          ELSE UNCHANGED METRICS_PORT /\ s_pc' = "failed"
    /\ UNCHANGED <<web_vars, f_vars, p_vars, b_vars, a_vars, w_vars, tts_vars,
                   environ, PUB_PORT,
                   SUB_PORT, bound>>

\* socket.bind(address) raises zmq.ZMQError (EADDRINUSE) when the address is
\* bound already, by this process or (in_use) by another one.
bind(next_pc, port, in_use) ==
    IF in_use \/ Address(port) \in bound
    THEN s_pc' = "failed" /\ UNCHANGED bound
    ELSE s_pc' = next_pc /\ bound' = bound \cup {Address(port)}

\* xsub.bind(PUB_BIND)
bind_xsub(in_use) ==
    /\ s_pc = "bind_xsub"
    /\ bind("bind_xpub", PUB_PORT, in_use)
    /\ UNCHANGED <<web_vars, f_vars, p_vars, b_vars, a_vars, w_vars, tts_vars,
                   environ, PUB_PORT,
                   SUB_PORT, METRICS_PORT>>

\* xpub.bind(SUB_BIND); the loop is entered after it.
bind_xpub(in_use) ==
    /\ s_pc = "bind_xpub"
    /\ bind("relaying", SUB_PORT, in_use)
    /\ UNCHANGED <<web_vars, f_vars, p_vars, b_vars, a_vars, w_vars, tts_vars,
                   environ, PUB_PORT,
                   SUB_PORT, METRICS_PORT>>

StartNext ==
    \/ import_PUB_PORT
    \/ import_SUB_PORT
    \/ import_METRICS_PORT
    \/ \E in_use \in BOOLEAN : bind_xsub(in_use)
    \/ \E in_use \in BOOLEAN : bind_xpub(in_use)

StartInit ==
    /\ session = 2
    /\ InitWeb
    /\ InitFrame
    /\ InitPool
    /\ XPUB_VERBOSE = 0
    /\ InitBroker
    /\ \E env \in Environs : InitStart(env)
    /\ InitApi("")
    /\ InitWorker
    /\ InitTts

StartSpec == StartInit /\ [][StartNext]_vars

\* ------------------------------------------------------------ api
\* projects/session-05/app/services/api/api.py

\* r.exists(key): Redis keeps no empty hash.
exists(key) == DOMAIN hashes[key] # {}
\* r.hset(key, mapping=mapping): the fields of mapping are set, the other
\* fields of the hash stay, and the hash is created when there is none.
hset(key, mapping) ==
    [hashes EXCEPT ![key] =
        [f \in DOMAIN hashes[key] \cup DOMAIN mapping |->
            IF f \in DOMAIN mapping THEN mapping[f] ELSE hashes[key][f]]]
\* h.get(field, default) of the dict that r.hgetall returns.
get(h, field, default) == IF field \in DOMAIN h THEN h[field] ELSE default

\* build_mp3_url: f"{PUBLIC_BASE_URL}{path}" if PUBLIC_BASE_URL else path
build_mp3_url(job_id) ==
    LET path == "/mp3/" \o job_id \o ".mp3"
    IN IF PUBLIC_BASE_URL # "" THEN PUBLIC_BASE_URL \o path ELSE path

\* raise HTTPException(status_code=code, detail=detail)
HTTPException(code, detail) == [code |-> code, detail |-> detail]

\* The requests a client may make. The body of POST /jobs is valid (FastAPI
\* answers 422 without calling the handler otherwise); so is the body of
\* PUT /internal/jobs/{job_id}, whose status is one of JobStatus. The
\* updates that are refused, for their token or for their job id, all carry
\* the same body.
Errors == {Nothing, Some(""), Some("boom")}
UpdateJobReq(j, t, s, e) ==
    [op |-> "update_job", job_id |-> j, token |-> t, status |-> s,
     error |-> e]
Requests ==
    {[NoReq EXCEPT !.op = "create_job"]}
    \cup {[NoReq EXCEPT !.op = op, !.job_id = j] :
             op \in {"get_job", "get_mp3"}, j \in JobIds}
    \cup {UpdateJobReq(j, t, "DONE", Nothing) :
             j \in JobIds, t \in {Nothing, Some("guess")}}
    \cup {UpdateJobReq("ghost", Some(INTERNAL_TOKEN), "DONE", Nothing)}
    \cup {UpdateJobReq(j, Some(INTERNAL_TOKEN), s, e) :
             j \in JobIds \ {"ghost"}, s \in JobStatus, e \in Errors}

\* The state and the work item that create_job builds.
JobState(job_id) ==
    [job_id |-> job_id, status |-> "QUEUED", voice |-> "en_US",
     speed |-> "1.0", bucket |-> BUCKET, mp3_key |-> job_id \o ".mp3",
     error |-> ""]
Work(job_id) ==
    [job_id |-> job_id, text |-> Str(<<"a">>), voice |-> "en_US",
     speed |-> "1.0", bucket |-> BUCKET, mp3_key |-> job_id \o ".mp3"]

\* What every step of the API leaves alone.
ApiKeeps == UNCHANGED <<world, w_vars, tts_vars, PUBLIC_BASE_URL>>

\* A request arrives and a handler thread starts on it. create_job begins
\* with job_id = str(uuid.uuid4()).
Call(h, req) ==
    /\ a_pc[h] = "idle"
    /\ n_calls < MaxCalls
    /\ n_calls' = n_calls + 1
    /\ IF req.op = "create_job"
       THEN /\ n_uuid < Len(UUIDs)
            /\ n_uuid' = n_uuid + 1
            /\ a_req' = [a_req EXCEPT ![h] =
                            [req EXCEPT !.job_id = UUIDs[n_uuid + 1]]]
       ELSE /\ a_req' = [a_req EXCEPT ![h] = req]
            /\ UNCHANGED n_uuid
    /\ a_pc' = [a_pc EXCEPT ![h] = req.op]
    /\ a_resp' = [a_resp EXCEPT ![h] = NoResp]
    /\ UNCHANGED <<hashes, lists>>
    /\ ApiKeeps

\* A changed create_job: the work item is enqueued before the hash is stored.
create_job_EnqueuesFirst(h) ==
    /\ a_pc[h] = "create_job"
    /\ lists' = [lists EXCEPT ![jobs_queue_key] =
                    Append(@, Work(a_req[h].job_id))]
    /\ a_pc' = [a_pc EXCEPT ![h] = "rpush"]
    /\ UNCHANGED <<hashes, n_uuid, n_calls, a_req, a_resp>>
    /\ ApiKeeps

\* create_job: r.hset(job_key(job_id), mapping=state)
create_job(h) ==
    /\ a_pc[h] = "create_job"
    /\ hashes' = hset(job_key(a_req[h].job_id), JobState(a_req[h].job_id))
    /\ a_pc' = [a_pc EXCEPT ![h] = "rpush"]
    /\ UNCHANGED <<lists, n_uuid, n_calls, a_req, a_resp>>
    /\ ApiKeeps

\* create_job: r.rpush(jobs_queue_key(), json.dumps(work)) and the return.
create_job_rpush(h) ==
    /\ a_pc[h] = "rpush"
    /\ lists' = [lists EXCEPT ![jobs_queue_key] =
                    Append(@, Work(a_req[h].job_id))]
    /\ a_resp' = [a_resp EXCEPT ![h] =
                     [code |-> 200, job_id |-> a_req[h].job_id,
                      status |-> "QUEUED"]]
    /\ a_pc' = [a_pc EXCEPT ![h] = "done"]
    /\ UNCHANGED <<hashes, n_uuid, n_calls, a_req>>
    /\ ApiKeeps

\* if not r.exists(job_key(job_id)): raise HTTPException(404, ...), the first
\* statement of get_job and of get_mp3.
if_not_exists(h) ==
    /\ a_pc[h] \in {"get_job", "get_mp3"}
    /\ IF exists(job_key(a_req[h].job_id))
       THEN /\ a_pc' = [a_pc EXCEPT ![h] = a_req[h].op \o "_hgetall"]
            /\ UNCHANGED a_resp
       ELSE /\ a_resp' = [a_resp EXCEPT ![h] =
                             HTTPException(404, "job_id not found")]
            /\ a_pc' = [a_pc EXCEPT ![h] = "done"]
    /\ UNCHANGED <<hashes, lists, n_uuid, n_calls, a_req>>
    /\ ApiKeeps

\* The JobState that get_job returns for the dict h of r.hgetall.
get_job_UrlAlways(job_id, h) ==
    LET st == get(h, "status", "QUEUED")
    IN [code |-> 200, job_id |-> job_id, status |-> st,
        mp3_url |-> Some(build_mp3_url(job_id)),
        error |-> IF get(h, "error", "") = "" THEN Nothing
                  ELSE Some(h.error)]

\* st = h.get("status", "QUEUED")
\* mp3_url = build_mp3_url(job_id) if st == "DONE" else None
\* err = h.get("error") or None
get_job(job_id, h) ==
    LET st == get(h, "status", "QUEUED")
    IN [code |-> 200, job_id |-> job_id, status |-> st,
        mp3_url |-> IF st = "DONE" THEN Some(build_mp3_url(job_id))
                    ELSE Nothing,
        error |-> IF get(h, "error", "") = "" THEN Nothing
                  ELSE Some(h.error)]

\* get_job: h = r.hgetall(job_key(job_id)) and the return.
get_job_hgetall(h) ==
    /\ a_pc[h] = "get_job_hgetall"
    /\ a_resp' = [a_resp EXCEPT ![h] =
                     get_job(a_req[h].job_id,
                             hashes[job_key(a_req[h].job_id)])]
    /\ a_pc' = [a_pc EXCEPT ![h] = "done"]
    /\ UNCHANGED <<hashes, lists, n_uuid, n_calls, a_req>>
    /\ ApiKeeps

\* A changed get_mp3: it redirects for every job that is not FAILED.
get_mp3_UnlessFailed(job_id, h) ==
    IF get(h, "status", "") = "FAILED"
    THEN HTTPException(409, "mp3 not ready")
    ELSE [code |-> 302, Location |-> build_mp3_url(job_id)]

\* if h.get("status") != "DONE": raise HTTPException(409, ...)
\* return Response(status_code=302, headers={"Location": mp3_url})
get_mp3(job_id, h) ==
    IF get(h, "status", "") # "DONE"
    THEN HTTPException(409, "mp3 not ready")
    ELSE [code |-> 302, Location |-> build_mp3_url(job_id)]

\* get_mp3: h = r.hgetall(job_key(job_id)) and the return.
get_mp3_hgetall(h) ==
    /\ a_pc[h] = "get_mp3_hgetall"
    /\ a_resp' = [a_resp EXCEPT ![h] =
                     get_mp3(a_req[h].job_id,
                             hashes[job_key(a_req[h].job_id)])]
    /\ a_pc' = [a_pc EXCEPT ![h] = "done"]
    /\ UNCHANGED <<hashes, lists, n_uuid, n_calls, a_req>>
    /\ ApiKeeps

\* A changed update_job: the job is looked up before the token is checked.
update_job_LooksUpFirst(h) ==
    /\ a_pc[h] = "update_job"
    /\ IF ~exists(job_key(a_req[h].job_id))
       THEN /\ a_resp' = [a_resp EXCEPT ![h] =
                             HTTPException(404, "job_id not found")]
            /\ a_pc' = [a_pc EXCEPT ![h] = "done"]
       ELSE IF a_req[h].token # Some(INTERNAL_TOKEN)
       THEN /\ a_resp' = [a_resp EXCEPT ![h] =
                             HTTPException(401, "unauthorized")]
            /\ a_pc' = [a_pc EXCEPT ![h] = "done"]
       ELSE /\ a_pc' = [a_pc EXCEPT ![h] = "update_job_hset"]
            /\ UNCHANGED a_resp
    /\ UNCHANGED <<hashes, lists, n_uuid, n_calls, a_req>>
    /\ ApiKeeps

\* update_job: if x_internal_token != INTERNAL_TOKEN: raise 401
\*             if not r.exists(job_key(job_id)): raise 404
update_job(h) ==
    /\ a_pc[h] = "update_job"
    /\ IF a_req[h].token # Some(INTERNAL_TOKEN)
       THEN /\ a_resp' = [a_resp EXCEPT ![h] =
                             HTTPException(401, "unauthorized")]
            /\ a_pc' = [a_pc EXCEPT ![h] = "done"]
       ELSE IF ~exists(job_key(a_req[h].job_id))
       THEN /\ a_resp' = [a_resp EXCEPT ![h] =
                             HTTPException(404, "job_id not found")]
            /\ a_pc' = [a_pc EXCEPT ![h] = "done"]
       ELSE /\ a_pc' = [a_pc EXCEPT ![h] = "update_job_hset"]
            /\ UNCHANGED a_resp
    /\ UNCHANGED <<hashes, lists, n_uuid, n_calls, a_req>>
    /\ ApiKeeps

\* mapping = {"status": req.status}
\* if req.error is not None: mapping["error"] = req.error
mapping(req) ==
    IF req.error # Nothing
    THEN [status |-> req.status, error |-> req.error[1]]
    ELSE [status |-> req.status]

\* update_job: r.hset(job_key(job_id), mapping=mapping) and the return.
update_job_hset(h) ==
    /\ a_pc[h] = "update_job_hset"
    /\ hashes' = hset(job_key(a_req[h].job_id), mapping(a_req[h]))
    /\ a_resp' = [a_resp EXCEPT ![h] = [code |-> 200, ok |-> TRUE]]
    /\ a_pc' = [a_pc EXCEPT ![h] = "done"]
    /\ UNCHANGED <<lists, n_uuid, n_calls, a_req>>
    /\ ApiKeeps

\* The response has been sent; the thread is free for the next request.
Return(h) ==
    /\ a_pc[h] = "done"
    /\ a_pc' = [a_pc EXCEPT ![h] = "idle"]
    /\ a_req' = [a_req EXCEPT ![h] = NoReq]
    /\ a_resp' = [a_resp EXCEPT ![h] = NoResp]
    /\ UNCHANGED <<hashes, lists, n_uuid, n_calls>>
    /\ ApiKeeps

\* A worker takes the work item at the head of the queue:
\* session-07/app/services/worker/worker.py, item = r.blpop(QUEUE_KEY, ...)
blpop ==
    /\ lists[jobs_queue_key] # <<>>
    /\ lists' = [lists EXCEPT ![jobs_queue_key] = Tail(@)]
    /\ UNCHANGED <<hashes, n_uuid, n_calls, a_pc, a_req, a_resp>>
    /\ ApiKeeps

\* The list of work items, and the step in which a handler thread produces
\* the response to its request.
Queue == lists[jobs_queue_key]
Responds(h) == a_pc[h] # "done" /\ a_pc'[h] = "done"

ApiNext ==
    \/ \E h \in Handlers, req \in Requests : Call(h, req)
    \/ \E h \in Handlers : create_job(h)
    \/ \E h \in Handlers : create_job_rpush(h)
    \/ \E h \in Handlers : if_not_exists(h)
    \/ \E h \in Handlers : get_job_hgetall(h)
    \/ \E h \in Handlers : get_mp3_hgetall(h)
    \/ \E h \in Handlers : update_job(h)
    \/ \E h \in Handlers : update_job_hset(h)
    \/ \E h \in Handlers : Return(h)
    \/ blpop

\* The API was started with PUBLIC_BASE_URL unset or set.
ApiInit ==
    /\ session = 2
    /\ InitWeb
    /\ InitFrame
    /\ InitPool
    /\ XPUB_VERBOSE = 0
    /\ InitBroker
    /\ InitStart(<<>>)
    /\ \E base_url \in {"", "https://tts.example"} : InitApi(base_url)
    /\ InitWorker
    /\ InitTts

ApiSpec == ApiInit /\ [][ApiNext]_vars

\* ------------------------------------------------------------ worker
\* projects/session-07/app/services/worker/worker.py: main(), process_job().

\* str.strip(): the text without its leading and trailing whitespace.
RECURSIVE lstrip(_)
lstrip(s) ==
    IF s # <<>> /\ Head(s) \in Whitespace THEN lstrip(Tail(s)) ELSE s
RECURSIVE rstrip(_)
rstrip(s) ==
    IF s # <<>> /\ s[Len(s)] \in Whitespace
    THEN rstrip(SubSeq(s, 1, Len(s) - 1)) ELSE s
strip(s) == rstrip(lstrip(s))

\* The locals of process_job: job.get(field, default).
job == raw.doc
text == IF "text" \in DOMAIN job THEN job.text ELSE Str(<<>>)
bucket == IF "bucket" \in DOMAIN job THEN job.bucket ELSE S3_BUCKET
mp3_key == IF "mp3_key" \in DOMAIN job THEN job.mp3_key
           ELSE job.job_id \o ".mp3"

\* A call made for the work item in hand, by process_job or by main, and
\* whether it returned (ok) or raised.
Entry(by, call, arg, ok) == [by |-> by, call |-> call, arg |-> arg, ok |-> ok]

\* What every step of the worker leaves alone.
WorkerKeeps == UNCHANGED <<world, a_vars, tts_vars>>

\* main: item = r.blpop(QUEUE_KEY, ...); _, raw = item. A blpop that times
\* out returns None and the loop goes round: no change of state.
main_blpop(item) ==
    /\ w_pc = "blpop"
    /\ w_items < MaxItems
    /\ w_items' = w_items + 1
    /\ raw' = item
    /\ w_exc' = ""
    /\ w_log' = <<>>
    /\ w_pc' = "process_job"
    /\ WorkerKeeps

\* A changed validation: `if not isinstance(text, str) or not text:`.
EmptyText_NoStrip(t) == ~t.isstr \/ t.s = <<>>

\* if not isinstance(text, str) or not text.strip():
EmptyText(t) == ~t.isstr \/ strip(t.s) = <<>>
\* if len(text) > MAX_TEXT_LEN:
TooLong(t) == Len(t.s) > MAX_TEXT_LEN

\* process_job, lines 143-157, up to the first call of api_update:
\* json.loads(raw) and job["job_id"] raise for a text that is not JSON or has
\* no job_id; then the two checks of the text.
process_job ==
    /\ w_pc = "process_job"
    /\ IF ~raw.json
       THEN w_exc' = "JSONDecodeError" /\ w_pc' = "except"
       ELSE IF "job_id" \notin DOMAIN job
       THEN w_exc' = "KeyError" /\ w_pc' = "except"
       ELSE /\ UNCHANGED w_exc
            /\ w_pc' = IF EmptyText(text) THEN "FAILED_empty"
                       ELSE IF TooLong(text) THEN "FAILED_too_long"
                       ELSE "RUNNING"
    /\ UNCHANGED <<raw, w_items, w_log>>
    /\ WorkerKeeps

\* api_update(job_id, status, error): requests.put(...) and
\* resp.raise_for_status(), which raises when the API answers 401 or 404 or
\* cannot be reached. A call that raises inside process_job ends process_job.
api_update(at, status, error, ok, next_pc) ==
    /\ w_pc = at
    /\ w_log' = Append(w_log, Entry("process_job", "api_update",
                                    <<job.job_id, status, error>>, ok))
    /\ IF ok THEN w_pc' = next_pc /\ UNCHANGED w_exc
             ELSE w_pc' = "except" /\ w_exc' = "HTTPError"
    /\ UNCHANGED <<raw, w_items>>
    /\ WorkerKeeps

\* api_update(job_id, "FAILED", "empty text"); return
FAILED_empty(ok) ==
    api_update("FAILED_empty", "FAILED", Some("empty text"), ok, "blpop")

\* api_update(job_id, "FAILED", f"text too long (> {MAX_TEXT_LEN})"); return
FAILED_too_long(ok) ==
    api_update("FAILED_too_long", "FAILED",
               Some("text too long (> MAX_TEXT_LEN)"), ok, "blpop")

\* api_update(job_id, "RUNNING")
RUNNING(ok) ==
    api_update("RUNNING", "RUNNING", Nothing, ok, "run_piper_to_wav")

\* A step of the pipeline that raises when it fails: subprocess.run(...,
\* check=True) in run_piper_to_wav and wav_to_mp3, s3.upload_file in
\* upload_mp3.
Step(at, arg, ok, exc, next_pc) ==
    /\ w_pc = at
    /\ w_log' = Append(w_log, Entry("process_job", at, arg, ok))
    /\ IF ok THEN w_pc' = next_pc /\ UNCHANGED w_exc
             ELSE w_pc' = "except" /\ w_exc' = exc
    /\ UNCHANGED <<raw, w_items>>
    /\ WorkerKeeps

\* run_piper_to_wav(text, wav_path)
run_piper_to_wav(ok) ==
    Step("run_piper_to_wav", <<>>, ok, "RuntimeError", "wav_to_mp3")

\* wav_to_mp3(wav_path, mp3_path)
wav_to_mp3(ok) ==
    Step("wav_to_mp3", <<>>, ok, "CalledProcessError", "ensure_bucket")

\* ensure_bucket(bucket): both s3 calls are inside try/except Exception: pass,
\* so it never raises.
ensure_bucket ==
    Step("ensure_bucket", <<bucket>>, TRUE, "", "upload_mp3")

\* A changed upload_mp3: a failed upload is not raised.
upload_mp3_Swallows(ok) ==
    /\ w_pc = "upload_mp3"
    /\ w_log' = Append(w_log, Entry("process_job", "upload_mp3",
                                    <<bucket, mp3_key>>, ok))
    /\ w_pc' = "DONE"
    /\ UNCHANGED <<raw, w_items, w_exc>>
    /\ WorkerKeeps

\* upload_mp3(bucket, mp3_key, mp3_path): raise RuntimeError("s3 upload
\* failed") on BotoCoreError or ClientError.
upload_mp3(ok) ==
    Step("upload_mp3", <<bucket, mp3_key>>, ok, "RuntimeError", "DONE")

\* api_update(job_id, "DONE"), and process_job returns.
DONE(ok) ==
    api_update("DONE", "DONE", Nothing, ok, "blpop")

\* A changed main_except: the exception ends the worker.
main_except_Stops(ok) ==
    /\ w_pc = "except"
    /\ ok
    /\ w_pc' = "stopped"
    /\ UNCHANGED <<raw, w_items, w_exc, w_log>>
    /\ WorkerKeeps

\* main, `except Exception as e:` around process_job(raw):
\*     try:
\*         job = json.loads(raw); jid = job.get("job_id", "unknown")
\*         api_update(jid, "FAILED", f"{type(e).__name__}: {str(e)[:300]}")
\*     except Exception: pass
\* and the loop goes on with the next blpop.
main_except(ok) ==
    /\ w_pc = "except"
    /\ w_log' = IF raw.json
                THEN Append(w_log,
                            Entry("main", "api_update",
                                  <<IF "job_id" \in DOMAIN job
                                    THEN job.job_id ELSE "unknown",
                                    "FAILED", Some(w_exc)>>, ok))
                ELSE w_log
    /\ ok \/ raw.json
    /\ w_pc' = "blpop"
    /\ UNCHANGED <<raw, w_items, w_exc>>
    /\ WorkerKeeps

\* The calls that process_job has made for the item in hand, and the name
\* of a call: the status for a status update, the function otherwise.
ByProcessJob(e) == e.by = "process_job"
Name(e) == IF e.call = "api_update" THEN e.arg[2] ELSE e.call
\* The work item in hand is a JSON object with a job_id.
HasJob == w_items >= 1 /\ raw.json /\ "job_id" \in DOMAIN job

WorkerNext ==
    \/ \E item \in WorkItems : main_blpop(item)
    \/ process_job
    \/ \E ok \in BOOLEAN : FAILED_empty(ok)
    \/ \E ok \in BOOLEAN : FAILED_too_long(ok)
    \/ \E ok \in BOOLEAN : RUNNING(ok)
    \/ \E ok \in BOOLEAN : run_piper_to_wav(ok)
    \/ \E ok \in BOOLEAN : wav_to_mp3(ok)
    \/ ensure_bucket
    \/ \E ok \in BOOLEAN : upload_mp3(ok)
    \/ \E ok \in BOOLEAN : DONE(ok)
    \/ \E ok \in BOOLEAN : main_except(ok)

WorkerInit ==
    /\ session = 2
    /\ InitWeb
    /\ InitFrame
    /\ InitPool
    /\ XPUB_VERBOSE = 0
    /\ InitBroker
    /\ InitMore

WorkerSpec == WorkerInit /\ [][WorkerNext]_vars

\* ------------------------------------------------------------ piper
\* run_piper_to_wav(text, wav_path) of session-07 worker.py, which
\* process_job calls in a fresh temporary directory.
PiperKeeps ==
    UNCHANGED <<world, a_vars, w_vars, m_vars, t_vars, piper_in_PATH>>

\*     candidates = [...]
candidates ==
    << <<"piper", "--model", PIPER_MODEL_PATH, "--output_file", wav_path,
         "--length_scale", PIPER_LENGTH_SCALE>>,
       <<"piper", "--model", PIPER_MODEL_PATH, "--output_file", wav_path>>,
       <<"piper", "-m", PIPER_MODEL_PATH, "-f", wav_path,
         "--length_scale", PIPER_LENGTH_SCALE>>,
       <<"piper", "-m", PIPER_MODEL_PATH, "-f", wav_path>> >>

\*     if shutil.which("piper") is None:
\*         raise RuntimeError("piper binary not found in PATH")
which ==
    /\ q_pc = "which"
    /\ IF piper_in_PATH
       THEN q_pc' = "for" /\ UNCHANGED q_exc
       ELSE /\ q_pc' = "raised"
            /\ q_exc' = <<"piper binary not found in PATH">>
    /\ UNCHANGED <<runs, wav, last_err>>
    /\ PiperKeeps

\* p.stderr.decode("utf-8", errors="ignore")[:400]
Kept(stderr) ==
    [of |-> stderr.of,
     len |-> IF stderr.len > StderrKept THEN StderrKept ELSE stderr.len]

\* A changed test of the outcome: the exit status alone.
Succeeded_ExitStatusOnly(returncode, file) == returncode = 0

\*     p.returncode == 0 and os.path.exists(wav_path)
\*         and os.path.getsize(wav_path) > 1000
Succeeded(returncode, file) ==
    returncode = 0 /\ file.exists /\ file.size > MinWavSize

\* One round of `for cmd in candidates:`: p = _run(cmd, text) runs the
\* command to its end, with exit status returncode, what it wrote at
\* wav_path and its stderr; then the test of the outcome, and either
\* `return` or last_err is set.
for_run(returncode, written, stderr) ==
    /\ q_pc = "for"
    /\ Len(runs) < Len(candidates)
    /\ LET file == IF written.exists THEN written ELSE wav
       IN /\ wav' = file
          /\ runs' = Append(runs, [cmd |-> candidates[Len(runs) + 1],
                                   returncode |-> returncode,
                                   stderr |-> stderr,
                                   file |-> file])
          /\ IF Succeeded(returncode, file)
             THEN q_pc' = "returned" /\ UNCHANGED last_err
             ELSE last_err' = Kept(stderr) /\ UNCHANGED q_pc
    /\ UNCHANGED q_exc
    /\ PiperKeeps

\*     raise RuntimeError(f"piper failed for all known CLI variants.
\*                          stderr={last_err}")
raise_piper_failed ==
    /\ q_pc = "for"
    /\ Len(runs) = Len(candidates)
    /\ q_pc' = "raised"
    /\ q_exc' = <<"piper failed for all known CLI variants. stderr=",
                  last_err>>
    /\ UNCHANGED <<runs, wav, last_err>>
    /\ PiperKeeps

PiperNext ==
    \/ which
    \/ \E returncode \in {0, 1}, written \in Writes,
          stderr \in Stderrs(Len(runs) + 1) :
              for_run(returncode, written, stderr)
    \/ raise_piper_failed

PiperInit ==
    /\ session = 2
    /\ InitWeb
    /\ InitFrame
    /\ InitPool
    /\ XPUB_VERBOSE = 0
    /\ InitBroker
    /\ InitStart(<<>>)
    /\ InitApi("")
    /\ InitWorker
    /\ \E found \in BOOLEAN : InitPiper(found)
    /\ InitMp3(<<>>)
    /\ InitWorkers

PiperSpec == PiperInit /\ [][PiperNext]_vars

\* ------------------------------------------------------------ web player
\* GET /mp3/{job_id}.mp3 of session-04 services/web/web.py.
Mp3Keeps == UNCHANGED <<world, a_vars, w_vars, q_vars, t_vars, objects>>

\* The outcomes of s3.get_object: the object, a ClientError with the error
\* code of the response, or an error that is no ClientError.
Found(body) == [is |-> "object", Body |-> body]
ClientError(code) == [is |-> "ClientError", Code |-> code]
EndpointConnectionError == [is |-> "EndpointConnectionError"]
\* Error codes of a store that is not in order; "" stands for a response
\* without an error code.
OtherCodes == {"AccessDenied", "SlowDown", "500", ""}

\* s3.get_object(Bucket=Bucket, Key=Key): what the call can give with the
\* store as it is.
get_object(Bucket, Key) ==
    (IF <<Bucket, Key>> \in DOMAIN objects
     THEN {Found(objects[<<Bucket, Key>>])}
     ELSE {ClientError("NoSuchKey"), ClientError("404")})
    \cup {ClientError(code) : code \in OtherCodes}
    \cup {EndpointConnectionError}

\* A changed mapping: only NoSuchKey is "not found".
Respond_NoSuchKeyOnly(obj) ==
    IF obj.is = "object"
    THEN [code |-> 200, media_type |-> "audio/mpeg", body |-> obj.Body]
    ELSE IF obj.is = "ClientError"
    THEN IF obj.Code = "NoSuchKey"
         THEN HTTPException(404, "mp3 not found")
         ELSE HTTPException(502, "storage error")
    ELSE HTTPException(500, "Internal Server Error")

\*     except ClientError as e:
\*         code = e.response.get("Error", {}).get("Code", "")
\*         if code in ("NoSuchKey", "404"): raise HTTPException(404, ...)
\*         raise HTTPException(502, ...)
\*     return StreamingResponse(obj["Body"], media_type="audio/mpeg")
\* An exception that is no ClientError is not caught: the framework answers
\* 500.
Respond(obj) ==
    IF obj.is = "object"
    THEN [code |-> 200, media_type |-> "audio/mpeg", body |-> obj.Body]
    ELSE IF obj.is = "ClientError"
    THEN IF obj.Code \in {"NoSuchKey", "404"}
         THEN HTTPException(404, "mp3 not found")
         ELSE HTTPException(502, "storage error")
    ELSE HTTPException(500, "Internal Server Error")

\* serve_mp3(job_id), with obj what get_object gives.
serve_mp3(job_id, obj) ==
    /\ m_pc = "idle"
    /\ obj \in get_object(web_S3_BUCKET, S3Key(job_id))
    /\ m_job_id' = job_id
    /\ m_get' = [Bucket |-> web_S3_BUCKET, Key |-> S3Key(job_id)]
    /\ m_resp' = Respond(obj)
    /\ m_pc' = "done"
    /\ Mp3Keeps

\* The response has gone out; the next request can come.
serve_mp3_next ==
    /\ m_pc = "done"
    /\ m_pc' = "idle"
    /\ m_job_id' = ""
    /\ m_get' = <<>>
    /\ m_resp' = NoResp
    /\ Mp3Keeps

Mp3Next ==
    \/ \E job_id \in JobIds :
          \E obj \in get_object(web_S3_BUCKET, S3Key(job_id)) :
              serve_mp3(job_id, obj)
    \/ serve_mp3_next

Mp3Init ==
    /\ session = 2
    /\ InitWeb
    /\ InitFrame
    /\ InitPool
    /\ XPUB_VERBOSE = 0
    /\ InitBroker
    /\ InitStart(<<>>)
    /\ InitApi("")
    /\ InitWorker
    /\ InitPiper(TRUE)
    /\ \E store \in Stores : InitMp3(store)
    /\ InitWorkers

Mp3Spec == Mp3Init /\ [][Mp3Next]_vars

\* ------------------------------------------------------------ services
\* The TTS services together: the API (session-05 api.py), worker processes
\* (session-07 worker.py) that take their items from the API's queue and send
\* their status updates to the API over HTTP, the object store, and the web
\* player (session-04 web.py). All are configured alike: one queue, one
\* bucket, one INTERNAL_TOKEN.
TtsKeeps ==
    UNCHANGED <<world, w_vars, q_vars, PUBLIC_BASE_URL, n_uuid, n_calls,
                m_pc, m_job_id, m_get, m_resp>>

\* main: `while True:`, and item = r.blpop(QUEUE_KEY, timeout=POLL_TIMEOUT_S)
\* is called; the worker blocks in it.
t_while(w) ==
    /\ t_pc[w] = "while"
    /\ t_pc' = [t_pc EXCEPT ![w] = "blpop"]
    /\ UNCHANGED <<hashes, lists, a_pc, a_req, a_resp, objects, t_raw, t_exc,
                   t_wait, taken, ran>>
    /\ TtsKeeps

\* A changed t_blpop: the item is read and left in the list.
t_blpop_Peeks(w) ==
    /\ t_pc[w] = "blpop"
    /\ Queue # <<>>
    /\ t_raw' = [t_raw EXCEPT ![w] = Head(Queue)]
    /\ taken' = Append(taken, <<w, Head(Queue)>>)
    /\ t_pc' = [t_pc EXCEPT ![w] = "process_job"]
    /\ UNCHANGED <<hashes, lists, a_pc, a_req, a_resp, objects, t_exc,
                   t_wait, ran>>
    /\ TtsKeeps

\* blpop returns: Redis removes the head of the list and gives it to one of
\* the clients blocked on it, in one step; `_, raw = item`.
t_blpop(w) ==
    /\ t_pc[w] = "blpop"
    /\ Queue # <<>>
    /\ t_raw' = [t_raw EXCEPT ![w] = Head(Queue)]
    /\ lists' = [lists EXCEPT ![jobs_queue_key] = Tail(@)]
    /\ taken' = Append(taken, <<w, Head(Queue)>>)
    /\ t_pc' = [t_pc EXCEPT ![w] = "process_job"]
    /\ UNCHANGED <<hashes, a_pc, a_req, a_resp, objects, t_exc, t_wait, ran>>
    /\ TtsKeeps

\* blpop returns None after POLL_TIMEOUT_S with the list empty:
\*     if item is None: continue
t_blpop_timeout(w) ==
    /\ t_pc[w] = "blpop"
    /\ Queue = <<>>
    /\ t_pc' = [t_pc EXCEPT ![w] = "while"]
    /\ UNCHANGED <<hashes, lists, a_pc, a_req, a_resp, objects, t_raw, t_exc,
                   t_wait, taken, ran>>
    /\ TtsKeeps

\* process_job(raw) up to its first call of api_update. The items of the
\* API's queue are JSON objects with a job_id.
t_process_job(w) ==
    /\ t_pc[w] = "process_job"
    /\ ran' = [ran EXCEPT ![t_raw[w].job_id] = @ + 1]
    /\ LET t == get(t_raw[w], "text", Str(<<>>))
       IN t_pc' = [t_pc EXCEPT ![w] =
                      IF EmptyText(t) THEN "FAILED_empty"
                      ELSE IF TooLong(t) THEN "FAILED_too_long"
                      ELSE "RUNNING"]
    /\ UNCHANGED <<hashes, lists, a_pc, a_req, a_resp, objects, t_raw, t_exc,
                   t_wait, taken>>
    /\ TtsKeeps

\* The calls of api_update: where the worker is when it makes the call, the
\* status and the error it sends, and where it goes when the call returns.
\* process_job returns after FAILED and after DONE; so does main's handler.
UpdatePcs == {"FAILED_empty", "FAILED_too_long", "RUNNING", "DONE", "except"}
Update(w) ==
    CASE t_pc[w] = "FAILED_empty" ->
             [status |-> "FAILED", error |-> Some("empty text"),
              next |-> "while"]
      [] t_pc[w] = "FAILED_too_long" ->
             [status |-> "FAILED",
              error |-> Some("text too long (> MAX_TEXT_LEN)"),
              next |-> "while"]
      [] t_pc[w] = "RUNNING" ->
             [status |-> "RUNNING", error |-> Nothing,
              next |-> "run_piper_to_wav"]
      [] t_pc[w] = "DONE" ->
             [status |-> "DONE", error |-> Nothing, next |-> "while"]
      [] t_pc[w] = "except" ->
             [status |-> "FAILED", error |-> Some(t_exc[w]),
              next |-> "while"]

\* The worker goes to pc; back at `while True:` it holds no item and no
\* exception.
Goes(w, pc, exc) ==
    /\ t_pc' = [t_pc EXCEPT ![w] = pc]
    /\ t_exc' = [t_exc EXCEPT ![w] = IF pc = "while" THEN "" ELSE exc]
    /\ t_raw' = [t_raw EXCEPT ![w] = IF pc = "while" THEN NoItem ELSE @]

\* An exception is raised. Inside process_job it ends process_job and main
\* catches it (`except Exception as e:`); raised by main's own api_update it
\* is dropped (`except Exception: pass`) and the loop goes on.
Raises(w, exc) ==
    IF t_pc[w] = "except" THEN Goes(w, "while", "") ELSE Goes(w, "except", exc)

\* api_update: requests.put(url, json=payload, headers=..., timeout=10)
\* reaches the API, where handler thread h starts on it.
t_requests_put(w, h) ==
    /\ t_pc[w] \in UpdatePcs
    /\ t_wait[w] = NoHandler
    /\ a_pc[h] = "idle"
    /\ a_pc' = [a_pc EXCEPT ![h] = "update_job"]
    /\ a_req' = [a_req EXCEPT ![h] =
                    UpdateJobReq(t_raw[w].job_id, Some(INTERNAL_TOKEN),
                                 Update(w).status, Update(w).error)]
    /\ a_resp' = [a_resp EXCEPT ![h] = NoResp]
    /\ t_wait' = [t_wait EXCEPT ![w] = h]
    /\ UNCHANGED <<hashes, lists, objects, t_pc, t_raw, t_exc, taken, ran>>
    /\ TtsKeeps

\* api_update: requests.put raises because the API cannot be reached.
t_ConnectionError(w) ==
    /\ t_pc[w] \in UpdatePcs
    /\ t_wait[w] = NoHandler
    /\ Raises(w, "ConnectionError")
    /\ UNCHANGED <<hashes, lists, a_pc, a_req, a_resp, objects, t_wait,
                   taken, ran>>
    /\ TtsKeeps

\* api_update: the response arrives and resp.raise_for_status() raises
\* unless the status is 200.
t_raise_for_status(w) ==
    LET h == t_wait[w]
    IN /\ h # NoHandler
       /\ a_pc[h] = "done"
       /\ a_pc' = [a_pc EXCEPT ![h] = "idle"]
       /\ a_req' = [a_req EXCEPT ![h] = NoReq]
       /\ a_resp' = [a_resp EXCEPT ![h] = NoResp]
       /\ t_wait' = [t_wait EXCEPT ![w] = NoHandler]
       /\ IF a_resp[h].code = 200
          THEN Goes(w, Update(w).next, "")
          ELSE Raises(w, "HTTPError")
       /\ UNCHANGED <<hashes, lists, objects, taken, ran>>
       /\ TtsKeeps

\* api_update: no response within the 10 seconds of timeout=10; requests.put
\* raises, and the handler thread goes on with the request.
t_ReadTimeout(w) ==
    /\ t_wait[w] # NoHandler
    /\ t_wait' = [t_wait EXCEPT ![w] = NoHandler]
    /\ Raises(w, "ReadTimeout")
    /\ UNCHANGED <<hashes, lists, a_pc, a_req, a_resp, objects, taken, ran>>
    /\ TtsKeeps

\* A step of the pipeline that touches nothing outside the worker's
\* temporary directory: it returns or raises.
t_Step(w, at, ok, exc, next_pc) ==
    /\ t_pc[w] = at
    /\ IF ok THEN Goes(w, next_pc, "") ELSE Raises(w, exc)
    /\ UNCHANGED <<hashes, lists, a_pc, a_req, a_resp, objects, t_wait,
                   taken, ran>>
    /\ TtsKeeps

t_run_piper_to_wav(w, ok) ==
    t_Step(w, "run_piper_to_wav", ok, "RuntimeError", "wav_to_mp3")

t_wav_to_mp3(w, ok) ==
    t_Step(w, "wav_to_mp3", ok, "RuntimeError", "ensure_bucket")

\* ensure_bucket(bucket) catches what head_bucket and create_bucket raise.
t_ensure_bucket(w) ==
    t_Step(w, "ensure_bucket", TRUE, "", "upload_mp3")

\* The store with body put at (Bucket, Key).
put_object(Bucket, Key, body) ==
    [at \in DOMAIN objects \cup {<<Bucket, Key>>} |->
        IF at = <<Bucket, Key>> THEN body ELSE objects[at]]

\* A changed t_upload_mp3: the upload returns without storing the object.
t_upload_mp3_StoresNothing(w, ok) ==
    t_Step(w, "upload_mp3", ok, "RuntimeError", "DONE")

\* upload_mp3(bucket, mp3_key, mp3_path): s3.upload_file stores the object
\* and returns, or upload_mp3 raises RuntimeError.
t_upload_mp3(w, ok) ==
    /\ t_pc[w] = "upload_mp3"
    /\ LET Bucket == get(t_raw[w], "bucket", S3_BUCKET)
           Key == get(t_raw[w], "mp3_key", t_raw[w].job_id \o ".mp3")
       IN IF ok
          THEN /\ objects' = put_object(Bucket, Key, Body(<<Bucket, Key>>))
               /\ Goes(w, "DONE", "")
          ELSE /\ UNCHANGED objects
               /\ Raises(w, "RuntimeError")
    /\ UNCHANGED <<hashes, lists, a_pc, a_req, a_resp, t_wait, taken, ran>>
    /\ TtsKeeps

\* The steps of worker w.
worker(w) ==
    \/ t_while(w)
    \/ t_blpop(w)
    \/ t_blpop_timeout(w)
    \/ t_process_job(w)
    \/ \E h \in Handlers : t_requests_put(w, h)
    \/ t_ConnectionError(w)
    \/ t_raise_for_status(w)
    \/ t_ReadTimeout(w)
    \/ \E ok \in BOOLEAN : t_run_piper_to_wav(w, ok)
    \/ \E ok \in BOOLEAN : t_wav_to_mp3(w, ok)
    \/ t_ensure_bucket(w)
    \/ \E ok \in BOOLEAN : t_upload_mp3(w, ok)

\* The steps of handler thread h of the API: it serves POST /jobs and the
\* workers' PUT /internal/jobs/{job_id}. A response that no worker waits for
\* is sent to the client that made the request, or dropped.
handler(h) ==
    \/ create_job(h)
    \/ create_job_rpush(h)
    \/ update_job(h)
    \/ update_job_hset(h)
    \/ (\A w \in Workers : t_wait[w] # h) /\ Return(h)

TtsNext ==
    \/ \E h \in Handlers : Call(h, [NoReq EXCEPT !.op = "create_job"])
    \/ \E h \in Handlers : handler(h)
    \/ \E w \in Workers : worker(w)

TtsInit ==
    /\ session = 2
    /\ InitWeb
    /\ InitFrame
    /\ InitPool
    /\ XPUB_VERBOSE = 0
    /\ InitBroker
    /\ InitMore

TtsSpec == TtsInit /\ [][TtsNext]_vars

\* The workers and the handler threads keep running.
TtsLiveSpec ==
    /\ TtsSpec
    /\ \A w \in Workers : WF_vars(worker(w))
    /\ \A h \in Handlers : WF_vars(handler(h))

\* ------------------------------------------------------------ the program
Next ==
    \/ zmq_receiver
    \/ \E c \in Cursors : Connect(c)
    \/ \E c \in Cursors : gen(c)

Spec == Init /\ [][Next]_vars

\* ------------------------------------------------------------ scheduling
\* The streams of the runs whose scheduling is looked at: two concurrent ones.
LiveCursors == {1, 2}

LiveNext ==
    \/ zmq_receiver
    \/ \E c \in LiveCursors : Connect(c)
    \/ \E c \in LiveCursors : gen(c)

\* A thread that can take a step takes it; a thread that asks for the lock
\* gets it if the lock is free again and again; a client that stays connected
\* takes the items its generator yields. Messages need not arrive, clients
\* need not connect and may go away at any yield.
ThreadsRun ==
    /\ WF_vars(RSetJpeg \/ RSetMeta \/ RIncSeq \/ RNotify)
    /\ SF_vars(RAcquire)
    /\ \A c \in LiveCursors :
        /\ SF_vars(CAcquire(c))
        /\ SF_vars(\E late \in BOOLEAN : CReacquire(c, late))
        /\ WF_vars(CWait(c) \/ CContinue(c) \/ CCopy(c))
        /\ WF_vars(CResume(c))

\* wait() with timeout=2.0 returns after two seconds at the latest.
TimersRun == \A c \in LiveCursors : WF_vars(Timeout(c))

\* The program under its scheduling.
LiveSpec == Init /\ [][LiveNext]_vars /\ ThreadsRun /\ TimersRun

\* The program when only notifications end a wait: no wait is assumed to time out.
WakeSpec == Init /\ [][LiveNext]_vars /\ ThreadsRun

\* ------------------------------------------------------------ claims

\* C1: latest_frame_seq starts at 0 and never decreases, and every slot update
\* of zmq_receiver (from taking the lock to giving it back) leaves it exactly
\* one higher than it was when the update began.
C1_SeqIncrementsOnEveryUpdate ==
    [][/\ latest_frame_seq' >= latest_frame_seq
       /\ (lock = Receiver /\ lock' # Receiver) => latest_frame_seq' = r_msg.id]_vars

\* C2: in session-01, whenever zmq_receiver does not hold the lock,
\* latest_jpeg, latest_meta and latest_frame_seq come from the same received
\* message, or are all still initial.
C2_SlotIsOneMessage ==
    (session = 1 /\ lock # Receiver) =>
        /\ latest_jpeg.src = latest_frame_seq
        /\ latest_meta = latest_frame_seq
        /\ latest_jpeg.isNone <=> latest_frame_seq = 0

\* C3: in session-02, the part a stream cursor yields is the slot as it was
\* when the cursor copied it under the lock: the payload of the newest slot
\* update fn together with its sequence number n, never an earlier payload.
C3_YieldsNewestFrame ==
    [][\A c \in Cursors :
        (session = 2 /\ c_pc[c] = "check" /\ c_pc'[c] = "yield") =>
            /\ jpeg'[c] = latest_jpeg
            /\ last_sent_seq'[c] = latest_frame_seq
            /\ jpeg'[c].src = latest_frame_seq
            /\ ~jpeg'[c].isNone]_vars

C3_Witness ==
    \E c \in Cursors :
        /\ session = 2
        /\ c_pc[c] = "yield"
        /\ born[c] = 0
        /\ last_sent_seq[c] = 2
        /\ jpeg[c].src = 2

\* C4 as stated: a stream cursor created after N >= 1 slot updates yields
\* none of the frames 1..N: every frame it yields is a later one.
C4_NeverYieldsFramesBeforeConnect ==
    \A c \in Cursors :
        (c_pc[c] = "yield" /\ born[c] >= 1) => last_sent_seq[c] > born[c]

\* C4 amended: a stream cursor created after N >= 1 slot updates is never
\* made to wait before its first frame, and the first frame it yields is
\* frame N, the one in the slot, or a later one: it yields none of the
\* frames 1..N-1.
C4_YieldsFromCurrentFrame ==
    \A c \in Cursors :
        /\ (born[c] >= 1 /\ last_sent_seq[c] = InitialLastSent) =>
               c_pc[c] \notin {"waiting", "reacquire"}
        /\ c_pc[c] = "yield" =>
               /\ last_sent_seq[c] >= born[c]
               /\ jpeg[c].src >= born[c]

\* A cursor created after the first update has yielded frame 1 although no
\* second update has begun.
C4_Witness ==
    \E c \in Cursors :
        /\ c_pc[c] = "yield"
        /\ born[c] = 1
        /\ last_sent_seq[c] = 1
        /\ latest_frame_seq = 1
        /\ r_pc = "recv"

\* C5: a stream cursor yields a part only when latest_frame_seq differs from
\* its last_sent_seq, so it never yields the same sequence number twice.
C5_YieldsOnlyNewSeq ==
    [][\A c \in Cursors :
        (c_pc[c] = "check" /\ c_pc'[c] = "yield") =>
            latest_frame_seq # last_sent_seq[c]]_vars

\* C6: over the life of a stream cursor the sequence numbers of the frames it
\* yields never decrease.
C6_YieldedSeqNeverDecreases ==
    [][\A c \in Cursors :
        (Live(c) /\ c_pc'[c] = "yield") => last_sent_seq'[c] >= last_sent_seq[c]]_vars

\* A cursor that yielded frame 1 is at frame 2.
C6_Witness ==
    \E c \in Cursors :
        /\ c_pc[c] = "yield"
        /\ born[c] = 0
        /\ last_sent_seq[c] = 2

\* The last frame a live cursor yielded is the one in the slot.
AtLatest(c) ==
    /\ last_sent_seq[c] = latest_frame_seq
    /\ jpeg[c] = latest_jpeg

\* C7: once the receiver has stopped updating the slot, every live stream
\* cursor gets to yield the last frame and from then on all live cursors
\* agree on the last frame they yielded.
C7_CursorsConvergeOnLastFrame ==
    <>[](~latest_jpeg.isNone => \A c \in LiveCursors : Live(c) => AtLatest(c))

\* Two live cursors that started before the first frame have both yielded the
\* last frame, frame 2.
C7_Witness ==
    /\ latest_frame_seq = 2
    /\ lock = Free
    /\ \A c \in LiveCursors : c_pc[c] = "yield" /\ born[c] = 0 /\ AtLatest(c)

\* C8: no wake-up is lost: after the slot update with sequence number k,
\* every stream cursor that stays live and is consumed yields a frame with
\* a sequence number of at least k, without any wait having to time out.
C8_NoLostWakeup ==
    \A c \in LiveCursors : \A k \in 1..MaxMsgs :
        (Live(c) /\ latest_frame_seq >= k) ~> (~Live(c) \/ last_sent_seq[c] >= k)

\* Update 2 has been made: one cursor was blocked in wait() and has been
\* notified, the other was between its yield of frame 1 and wait_for.
C8_Witness ==
    \E c, d \in LiveCursors :
        /\ latest_frame_seq = 2
        /\ c_pc[c] = "reacquire" /\ ~expired[c] /\ last_sent_seq[c] = 1
        /\ c_pc[d] = "loop" /\ last_sent_seq[d] = 1

C10_AlwaysReachesCancelPoint ==
    \A c \in LiveCursors : [](Live(c) => <>(c_pc[c] \in YieldPcs \cup {"closed"}))

\* C11: in session-02 the MJPEG_CLIENTS gauge always equals the number of stream
\* generators that have started and not ended; the step that starts one adds
\* exactly one and the step that ends one, by GeneratorExit or by an
\* exception, takes exactly one back, so a generator that has come and gone
\* leaves the gauge where it would be without it.
C11_GaugeCountsLiveGenerators ==
    [][session = 2 =>
        /\ mjpeg_clients' = Cardinality({c \in Cursors : c_pc'[c] \notin {"idle", "closed"}})
        /\ \A c \in Cursors :
            /\ (~Live(c) /\ c_pc'[c] = "loop") => mjpeg_clients' = mjpeg_clients + 1
            /\ (Live(c) /\ c_pc'[c] = "closed") => mjpeg_clients' = mjpeg_clients - 1
        /\ (\A c \in Cursors : Live(c) <=> c_pc'[c] \notin {"idle", "closed"}) =>
               mjpeg_clients' = mjpeg_clients]_vars

\* One generator has come and gone while another one is still streaming: the
\* gauge shows one client.
C11_Witness ==
    \E c, d \in Cursors :
        /\ session = 2
        /\ c_pc[c] = "closed"
        /\ c_pc[d] = "yield"
        /\ mjpeg_clients = 1

\* C13: the step that ends one stream cursor, by GeneratorExit or by an
\* exception, leaves latest_jpeg, latest_meta and latest_frame_seq as they
\* are and changes neither the position nor the last_sent_seq nor the copied
\* frame of any other cursor; no step of any cursor writes the shared slot.
C13_TerminationTouchesNothingShared ==
    [][/\ \A c \in Cursors :
            (Live(c) /\ c_pc'[c] = "closed") =>
                /\ slot_vars' = slot_vars
                /\ r_vars' = r_vars
                /\ \A d \in Cursors \ {c} :
                    /\ c_pc'[d] = c_pc[d]
                    /\ last_sent_seq'[d] = last_sent_seq[d]
                    /\ jpeg'[d] = jpeg[d]
       /\ slot_vars' # slot_vars => lock = Receiver]_vars

\* One cursor has ended, and another one, which started before the first
\* frame, has yielded frame 2.
C13_Witness ==
    \E c, d \in Cursors :
        /\ c_pc[c] = "closed"
        /\ c_pc[d] = "yield"
        /\ born[d] = 0
        /\ last_sent_seq[d] = 2
        /\ latest_frame_seq = 2

\* C12: GET /frame.jpg answered from a slot that no update has written yet
\* returns the 503 response "No frame yet", and no response has status 200
\* with a body that is None or an empty byte string.
C12_NoFrameYetBeforeAnyUpdate ==
    f_pc = "done" =>
        /\ (f_data.isNone \/ latest_jpeg.isNone) => f_resp = NoFrameYet
        /\ f_resp.status \in {200, 503}
        /\ f_resp.status = 200 =>
               /\ ~f_resp.body.isNone
               /\ f_resp.body.data # <<>>
               /\ f_resp.body.src >= 1

\* A snapshot has been answered with 503 while the receiver, which has a
\* message in hand, has not written the slot yet.
C12_Witness ==
    /\ f_pc = "done"
    /\ f_resp = NoFrameYet
    /\ r_pc = "with"
    /\ latest_jpeg.isNone

\* C14: whatever the number of connected /stream.mjpg clients, a request
\* that arrives, for /frame.jpg or for /stream.mjpg, is eventually served.
C14_NoHeadOfLineBlocking ==
    \A r \in Reqs : (p_path[r] # "") ~> Served(r)

\* s is an initial part of t.
IsPrefix(s, t) == Len(s) <= Len(t) /\ SubSeq(t, 1, Len(s)) = s
\* s without its last element.
Front(s) == SubSeq(s, 1, Len(s) - 1)

\* C15: whatever the loop writes to XPUB is the message it has just read from
\* XSUB, whole: the same number of segments, the same bytes in each and the
\* same order; and the loop goes on from a read of a message of one or more
\* segments only by writing that message.
C15_ForwardsWholeFrameUnchanged ==
    [][/\ xpub_out' # xpub_out =>
            /\ Len(xpub_out') = Len(xpub_out) + 1
            /\ SubSeq(xpub_out', 1, Len(xpub_out)) = xpub_out
            /\ msg = xsub_read[Len(xsub_read)]
            /\ Len(xpub_out'[Len(xpub_out')]) = Len(msg)
            /\ \A i \in 1..Len(msg) : xpub_out'[Len(xpub_out')][i] = msg[i]
       /\ (b_pc = "send_xpub" /\ b_pc' = "count_out_xpub") =>
            /\ Len(msg) >= 1
            /\ xpub_out' = Append(xpub_out, msg)]_vars

\* The three-segment frame has been forwarded after a one-segment frame.
C15_Witness ==
    /\ xsub_read = <<(<<"y">>), (<<"x", "meta", "payload">>)>>
    /\ xpub_out = xsub_read
    /\ b_pc = "count_out_xpub"

\* C16: while the loop runs, the frames written to egress are the frames
\* read from ingress so far, in the order read, or all of them but the last
\* one while that one is being forwarded.
C16_EgressIsIngressInOrder ==
    Running =>
        \/ xpub_out = xsub_read
        \/ /\ b_pc \in {"count_in_xsub", "send_xpub"}
           /\ xpub_out = Front(xsub_read)

\* Two different frames have been forwarded in the order read while two
\* subscription messages went the other way.
C16_Witness ==
    /\ Running
    /\ Len(xpub_out) = 2
    /\ xpub_out[1] # xpub_out[2]
    /\ xpub_out = xsub_read
    /\ Len(xsub_out) = 2

\* C17: the subscription messages written to XSUB are the ones read from
\* XPUB, unmodified and in the order read, or all of them but the last one
\* while that one is being forwarded.
C17_IntentsForwardedInOrder ==
    Running =>
        \/ xsub_out = xpub_read
        \/ /\ b_pc \in {"count_in_subs", "send_xsub"}
           /\ xsub_out = Front(xpub_read)

\* A subscribe and then an unsubscribe message have been forwarded, with a
\* data frame forwarded as well.
C17_Witness ==
    /\ Running
    /\ xsub_out = <<SubMsg(1, "processed"), SubMsg(0, "processed")>>
    /\ xsub_out = xpub_read
    /\ Len(xpub_out) >= 1

C19_VerboseChangesNoForwarding ==
    /\ IsPrefix(xsub_out, xpub_alt)
    /\ IsPrefix(xpub_out, xsub_read \o xsub_in)

\* C20: when the loop has been stopped, every frame and every subscription
\* message that was read from one socket has been written to the other.
C20_StopCompletesForward ==
    b_pc = "stopped" => xpub_out = xsub_read /\ xsub_out = xpub_read

\* C21: an exception other than KeyboardInterrupt raised in the loop is
\* counted in ERRORS exactly once and ends the loop in the same step, with
\* nothing received or forwarded by that step; ERRORS counts nothing else;
\* once main() has ended, by a stop or by an error, both sockets are closed
\* and nothing is received, forwarded or counted any more.
C21_ErrorEndsLoopAndSocketsAreClosed ==
    [][/\ b_errors' # b_errors =>
            /\ Running
            /\ b_errors' = b_errors + 1
            /\ b_pc' = "raised"
            /\ UNCHANGED <<xsub_in, xpub_in, xsub_read, xpub_read, xpub_out,
                           xsub_out>>
       /\ (Running /\ b_pc' = "raised") => b_errors' = b_errors + 1
       /\ b_pc' \in {"stopped", "raised"} => closed' = {"xsub", "xpub"}
       /\ Running' => closed' = {}
       /\ ~Running => UNCHANGED b_vars]_vars

\* A send of a frame of three segments failed after an earlier frame had
\* been forwarded: one error is counted and the sockets are closed.
C21_Witness ==
    /\ b_pc = "raised"
    /\ b_errors = 1
    /\ closed = {"xsub", "xpub"}
    /\ Len(xsub_read) = 2
    /\ Len(xsub_read[2]) = 3
    /\ xpub_out = Front(xsub_read)

\* C22: at the start of every iteration of the loop the IN and OUT frame
\* counters of the data direction both equal the number of frames forwarded,
\* those of the subscription direction the number of subscription messages
\* forwarded, and BYTES_IN equals BYTES_OUT in each direction; in every
\* state an OUT counter is at most its IN counter and is behind it by at most
\* the message in hand.
C22_TelemetryBalanced ==
    /\ b_pc = "poll" =>
            /\ FRAMES_IN.xsub_in = Len(xpub_out)
            /\ FRAMES_OUT.xpub_out = Len(xpub_out)
            /\ FRAMES_IN.subs = Len(xsub_out)
            /\ FRAMES_OUT.subs = Len(xsub_out)
            /\ BYTES_IN.xsub_in = BYTES_OUT.xpub_out
            /\ BYTES_IN.subs = BYTES_OUT.subs
    /\ FRAMES_IN.xsub_in - FRAMES_OUT.xpub_out \in {0, 1}
    /\ FRAMES_IN.subs - FRAMES_OUT.subs \in {0, 1}
    /\ BYTES_IN.xsub_in - BYTES_OUT.xpub_out \in {0, TotalBytes(msg)}
    /\ BYTES_IN.subs - BYTES_OUT.subs \in {0, SubBytes(sub_msg)}

\* Two frames, of one and of three segments, and two subscription messages
\* have been forwarded and counted.
C22_Witness ==
    /\ b_pc = "poll"
    /\ FRAMES_OUT.xpub_out = 2
    /\ BYTES_OUT.xpub_out = 13
    /\ FRAMES_OUT.subs = 2
    /\ BYTES_OUT.subs = 20

\* C23: the broker starts relaying only when PUB_PORT and SUB_PORT, where
\* set, are texts of integers of 1..65535, and then XSUB and XPUB are bound to
\* the configured ports.
C23_FailsOnMalformedPort ==
    s_pc = "relaying" =>
        /\ \A n \in {"PUB_PORT", "SUB_PORT"} :
               n \in DOMAIN environ =>
                   IsIntText(environ[n]) /\ ValidPort(int(environ[n]))
        /\ bound = {Address(int(getenv("PUB_PORT", "5555"))),
                    Address(int(getenv("SUB_PORT", "5556")))}

\* C24: in session-02 the receipt of a message that does not go on to the
\* slot update (not three parts, header not JSON, header not a JSON object)
\* leaves latest_jpeg, latest_meta and latest_frame_seq as they were, changes
\* the state of no cursor, adds exactly one to ERRORS and leaves the receiver
\* at recv_multipart for the next message; ERRORS changes in no other step
\* and the receiver thread never ends.
C24_MalformedMessageChangesNothing ==
    [][session = 2 =>
         /\ (r_pc = "recv" /\ nrecv' # nrecv /\ r_pc' # "with") =>
                /\ UNCHANGED <<slot_vars, c_vars, lock, mjpeg_clients>>
                /\ errors' = errors + 1
                /\ r_pc' = "recv"
         /\ errors' # errors =>
                r_pc = "recv" /\ nrecv' # nrecv /\ r_pc' # "with"
         /\ r_pc' # "dead"]_vars

\* A malformed message was counted while a cursor was waiting, and a
\* well-formed message has been stored.
C24_Witness ==
    /\ session = 2
    /\ errors = 1
    /\ nrecv = 2
    /\ latest_frame_seq = 1
    /\ r_pc = "recv"
    /\ \E c \in Cursors : Live(c) /\ last_sent_seq[c] = 1

\* C25: POST /jobs first stores a hash for a new job id with status QUEUED,
\* the bucket and mp3_key = job_id + ".mp3", leaving the queue alone, and
\* then appends exactly one work item to the tail of jobs:queue:{APP_ENV},
\* with the job id it returns, the same bucket and the same mp3_key; nothing
\* else adds to the queue, and every item of the queue refers to a stored hash
\* with its mp3_key.
C25_CreateJobStoresThenEnqueues ==
    [][/\ \A h \in Handlers :
            (a_pc[h] = "create_job" /\ a_pc'[h] # "create_job") =>
                LET key == job_key(a_req[h].job_id)
                IN /\ DOMAIN hashes[key] = {}
                   /\ DOMAIN hashes'[key] # {}
                   /\ hashes'[key].status = "QUEUED"
                   /\ hashes'[key].bucket = BUCKET
                   /\ hashes'[key].mp3_key = a_req[h].job_id \o ".mp3"
                   /\ lists' = lists
       /\ \A h \in Handlers :
            (a_req[h].op = "create_job" /\ Responds(h)) =>
                LET id == a_resp'[h].job_id
                    item == Queue'[Len(Queue')]
                IN /\ a_resp'[h].code = 200
                   /\ a_resp'[h].status = "QUEUED"
                   /\ DOMAIN hashes[job_key(id)] # {}
                   /\ Len(Queue') = Len(Queue) + 1
                   /\ SubSeq(Queue', 1, Len(Queue)) = Queue
                   /\ item.job_id = id
                   /\ item.bucket = BUCKET
                   /\ item.mp3_key = id \o ".mp3"
                   /\ DOMAIN lists' = {"jobs:queue:dev"}
       /\ Len(Queue') > Len(Queue) =>
            \E h \in Handlers : a_req[h].op = "create_job" /\ Responds(h)
       /\ \A i \in 1..Len(Queue') :
            LET hash == hashes'[job_key(Queue'[i].job_id)]
            IN /\ DOMAIN hash # {}
               /\ hash.mp3_key = Queue'[i].mp3_key
               /\ hash.bucket = Queue'[i].bucket]_vars

\* The second job has been created while the first is still in the queue.
C25_Witness ==
    /\ Len(Queue) = 2
    /\ Queue[1].job_id = "j1"
    /\ Queue[2].mp3_key = "j2.mp3"
    /\ \E h \in Handlers :
          /\ a_pc[h] = "done"
          /\ a_req[h].op = "create_job"
          /\ a_resp[h].job_id = "j2"

\* C26: GET /jobs/{job_id} answers 404 exactly when no hash is stored for
\* the job; for a stored job it answers 200 with the stored status, with an
\* mp3_url that is not null exactly when that status is DONE, and with a null
\* error whenever the stored error is the empty string.
C26_GetJobReportsStoredState ==
    [][\A h \in Handlers :
         (a_req[h].op = "get_job" /\ Responds(h)) =>
             LET hash == hashes[job_key(a_req[h].job_id)]
                 res == a_resp'[h]
             IN /\ res.code \in {200, 404}
                /\ res.code = 404 <=> DOMAIN hash = {}
                /\ res.code = 200 =>
                      /\ res.status = hash.status
                      /\ res.mp3_url # Nothing <=> hash.status = "DONE"
                      /\ hash.error = "" => res.error = Nothing
                      /\ hash.error # "" => res.error = Some(hash.error)]_vars

\* A job that is DONE with an empty error has been reported with its URL.
C26_Witness ==
    \E h \in Handlers :
        /\ a_pc[h] = "done"
        /\ a_req[h].op = "get_job"
        /\ a_resp[h].code = 200
        /\ a_resp[h].status = "DONE"
        /\ a_resp[h].mp3_url = Some("https://tts.example/mp3/j1.mp3")
        /\ a_resp[h].error = Nothing
        /\ hashes[job_key("j1")].error = ""

\* C27: PUT /internal/jobs/{job_id} without the right X-Internal-Token
\* answers 401 whether the job is stored or not; with the right token and a
\* job that is not stored it answers 404; in both cases no hash is created or
\* modified. With the right token and a stored job it sets the status of that
\* job, sets the error only when the request supplies one, and changes
\* nothing else.
C27_UpdateJobChecksTokenThenJob ==
    [][\A h \in Handlers :
         LET req == a_req[h]
             key == job_key(req.job_id)
             res == a_resp'[h]
         IN /\ (a_pc[h] = "update_job" /\ a_pc'[h] # "update_job") =>
                  /\ hashes' = hashes
                  /\ req.token # Some("changeme") =>
                        Responds(h) /\ res.code = 401
                  /\ (req.token = Some("changeme") /\ DOMAIN hashes[key] = {})
                        => Responds(h) /\ res.code = 404
                  /\ (req.token = Some("changeme") /\ DOMAIN hashes[key] # {})
                        => ~Responds(h)
            /\ (a_pc[h] = "update_job_hset" /\ Responds(h)) =>
                  /\ res.code = 200
                  /\ req.token = Some("changeme")
                  /\ DOMAIN hashes[key] # {}
                  /\ DOMAIN hashes'[key] = DOMAIN hashes[key]
                  /\ hashes'[key].status = req.status
                  /\ hashes'[key].error = IF req.error = Nothing
                                          THEN hashes[key].error
                                          ELSE req.error[1]
                  /\ \A f \in DOMAIN hashes[key] \ {"status", "error"} :
                        hashes'[key][f] = hashes[key][f]
                  /\ \A k \in DOMAIN hashes \ {key} :
                        hashes'[k] = hashes[k]]_vars

\* An update of a stored job with a wrong token was refused with 401 and an
\* update with the right token and no error has set its status.
C27_Witness ==
    \E h1, h2 \in Handlers :
        /\ a_pc[h1] = "done"
        /\ a_req[h1].op = "update_job"
        /\ a_req[h1].job_id = "j1"
        /\ a_resp[h1].code = 401
        /\ a_pc[h2] = "done"
        /\ a_req[h2].op = "update_job"
        /\ a_req[h2].error = Nothing
        /\ a_req[h2].status = "FAILED"
        /\ a_resp[h2].code = 200
        /\ hashes[job_key("j1")].status = "FAILED"
        /\ hashes[job_key("j1")].error = ""

\* C28: GET /mp3/{job_id}.mp3 answers 404 exactly when no hash is stored for
\* the job, 302 exactly when the stored status is DONE, with Location =
\* PUBLIC_BASE_URL + "/mp3/{job_id}.mp3", and 409 for a stored job of any
\* other status.
C28_Mp3RedirectsOnlyWhenDone ==
    [][\A h \in Handlers :
         (a_req[h].op = "get_mp3" /\ Responds(h)) =>
             LET hash == hashes[job_key(a_req[h].job_id)]
                 res == a_resp'[h]
             IN /\ res.code \in {302, 404, 409}
                /\ res.code = 404 <=> DOMAIN hash = {}
                /\ res.code = 302 <=>
                      (DOMAIN hash # {} /\ hash.status = "DONE")
                /\ res.code = 302 =>
                      res.Location = PUBLIC_BASE_URL \o "/mp3/"
                                        \o a_req[h].job_id \o ".mp3"]_vars

\* A job that was set to DONE has been redirected to the configured base
\* URL.
C28_Witness ==
    \E h \in Handlers :
        /\ a_pc[h] = "done"
        /\ a_req[h].op = "get_mp3"
        /\ a_resp[h].code = 302
        /\ a_resp[h].Location = "https://tts.example/mp3/j1.mp3"
        /\ hashes[job_key("j1")].status = "DONE"

\* C29: for a work item whose text is missing, not a string, made of
\* whitespace only (or empty), or longer than MAX_TEXT_LEN, process_job makes
\* exactly one call by the time it ends, a status update FAILED for the job
\* with the reason; no status update for the item is RUNNING or DONE and no
\* step of the pipeline is run.
C29_InvalidTextFailsWithoutPipeline ==
    LET blank == \/ "text" \notin DOMAIN job
                 \/ ~job.text.isstr
                 \/ \A i \in 1..Len(job.text.s) : job.text.s[i] = " "
        long == /\ "text" \in DOMAIN job
                /\ Len(job.text.s) > MAX_TEXT_LEN
        mine == SelectSeq(w_log, ByProcessJob)
    IN (HasJob /\ (blank \/ long)) =>
          /\ Len(mine) <= 1
          /\ w_pc \in {"blpop", "except"} => Len(mine) = 1
          /\ \A i \in 1..Len(mine) :
                /\ mine[i].call = "api_update"
                /\ mine[i].arg[1] = job.job_id
                /\ mine[i].arg[2] = "FAILED"
                /\ mine[i].arg[3] =
                      IF blank THEN Some("empty text")
                      ELSE Some("text too long (> MAX_TEXT_LEN)")
          /\ \A i \in 1..Len(w_log) :
                w_log[i].call = "api_update" /\ w_log[i].arg[2] = "FAILED"
          /\ w_pc \in {"process_job", "FAILED_empty", "FAILED_too_long",
                        "except", "blpop"}

\* A text of letters one character longer than MAX_TEXT_LEN has been failed.
C29_Witness ==
    /\ HasJob
    /\ w_pc = "blpop"
    /\ "text" \in DOMAIN job
    /\ Len(job.text.s) = MAX_TEXT_LEN + 1
    /\ \A i \in 1..Len(job.text.s) : job.text.s[i] = "a"
    /\ Len(w_log) = 1
    /\ w_log[1].arg = <<"j1", "FAILED", Some("text too long (> MAX_TEXT_LEN)")>>
    /\ w_log[1].ok

\* C30: for a work item whose text is a string with a character that is not
\* whitespace and of at most MAX_TEXT_LEN characters, the calls of
\* process_job are, in this order, the status update RUNNING,
\* run_piper_to_wav, wav_to_mp3, ensure_bucket, upload_mp3 and the status
\* update DONE, or the first few of them: each is made at most once and only
\* after the one before it has returned without error, and all six have been
\* made when process_job returns.
C30_ValidItemRunsStepsInOrder ==
    LET valid == /\ "text" \in DOMAIN job
                 /\ job.text.isstr
                 /\ \E i \in 1..Len(job.text.s) : job.text.s[i] # " "
                 /\ Len(job.text.s) <= MAX_TEXT_LEN
        mine == SelectSeq(w_log, ByProcessJob)
        order == <<"RUNNING", "run_piper_to_wav", "wav_to_mp3",
                   "ensure_bucket", "upload_mp3", "DONE">>
    IN (HasJob /\ valid) =>
          /\ Len(mine) <= 6
          /\ \A i \in 1..Len(mine) :
                /\ Name(mine[i]) = order[i]
                /\ w_log[i] = mine[i]
                /\ i < Len(mine) => mine[i].ok
          /\ (w_pc = "blpop" /\ w_exc = "") =>
                Len(mine) = 6 /\ mine[6].ok /\ w_log = mine
          /\ \A i \in 1..Len(w_log) :
                (w_log[i].call = "api_update" /\ w_log[i].arg[2] = "DONE") =>
                    /\ i = 6
                    /\ w_log[5].call = "upload_mp3"
                    /\ w_log[5].ok

\* A valid item that names its bucket and key has gone through all six steps.
C30_Witness ==
    /\ HasJob
    /\ w_pc = "blpop"
    /\ w_exc = ""
    /\ Len(w_log) = 6
    /\ w_log[1].arg = <<"j1", "RUNNING", Nothing>>
    /\ w_log[5].arg = <<"tts-other", "other.mp3">>
    /\ w_log[6].arg = <<"j1", "DONE", Nothing>>
    /\ w_log[6].ok

\* C39: GET /frame.jpg returns the 503 response "No frame yet" if and only
\* if no slot update has stored a frame: a request that reads a stored
\* payload, the empty byte string included, is answered with status 200 and
\* that payload, as a stream cursor would yield it.
C39_SnapshotOfAnyStoredPayload ==
    f_pc = "done" =>
        /\ f_resp = NoFrameYet <=> f_data.isNone
        /\ ~f_data.isNone => f_resp = Ok(f_data)

\* C40: a stream cursor yields nothing before the first slot update: while
\* latest_jpeg is None no cursor is at a yield, whatever the number of
\* timeouts, and no cursor has sent anything; the payload of every part is
\* the payload of a slot update.
C40_NothingYieldedBeforeFirstUpdate ==
    \A c \in Cursors :
        /\ latest_jpeg.isNone =>
               /\ c_pc[c] # "yield"
               /\ last_sent_seq[c] = InitialLastSent
               /\ jpeg[c].isNone
        /\ c_pc[c] = "yield" =>
               /\ ~jpeg[c].isNone
               /\ jpeg[c].src >= 1

\* A cursor's wait has timed out and it is back under the lock with the
\* slot still None.
C40_Witness ==
    \E c \in Cursors :
        /\ c_pc[c] = "check"
        /\ lock = c
        /\ expired[c]
        /\ latest_jpeg.isNone
        /\ last_sent_seq[c] = InitialLastSent

\* C31: when run_piper_to_wav, wav_to_mp3 or upload_mp3 raises, after the
\* status update RUNNING has been sent, process_job makes no further call (no
\* status update DONE), and main makes exactly one call, the status update
\* FAILED for the job_id of the item with the exception as error, whether it
\* succeeds or not; the worker is then at blpop again and takes the next
\* item.
C31_PipelineFailureIsReportedOnce ==
    LET mine == SelectSeq(w_log, ByProcessJob)
        last == mine[Len(mine)]
        raised == /\ Len(mine) >= 1
                  /\ last.call \in {"run_piper_to_wav", "wav_to_mp3",
                                     "upload_mp3"}
                  /\ ~last.ok
    IN raised =>
          /\ w_log[1].call = "api_update"
          /\ w_log[1].arg = <<job.job_id, "RUNNING", Nothing>>
          /\ w_log[1].ok
          /\ \A i \in 1..Len(w_log) : Name(w_log[i]) # "DONE"
          /\ w_pc \in {"except", "blpop"}
          /\ w_pc = "except" => w_log = mine
          /\ w_pc = "blpop" =>
                /\ w_log = Append(mine, w_log[Len(w_log)])
                /\ w_log[Len(w_log)].by = "main"
                /\ w_log[Len(w_log)].call = "api_update"
                /\ w_log[Len(w_log)].arg =
                      <<job.job_id, "FAILED", Some(w_exc)>>
                /\ w_items < MaxItems => ENABLED main_blpop(raw)

\* The upload of the first item has failed, main has sent FAILED for j1 and
\* waits for the next item.
C31_Witness ==
    /\ w_pc = "blpop"
    /\ w_items = 1
    /\ Len(w_log) = 6
    /\ w_log[5].call = "upload_mp3"
    /\ ~w_log[5].ok
    /\ w_log[6].by = "main"
    /\ w_log[6].arg = <<"j1", "FAILED", Some("RuntimeError")>>

\* C34: run_piper_to_wav raises "piper binary not found in PATH" without
\* running a command when shutil.which finds no piper. Otherwise it runs the
\* candidates in the order of the list, at most the four of them; it runs
\* the next one only if none so far has exited with status 0 with a file of
\* more than 1000 bytes at wav_path, returns after the first that has, and
\* after the fourth has failed too it raises "piper failed ..." with the
\* stderr of the fourth (its first 400 characters).
C34_FirstWorkingCandidateWins ==
    LET ok(i) == /\ runs[i].returncode = 0
                 /\ runs[i].file.exists
                 /\ runs[i].file.size > 1000
        n == Len(runs)
    IN /\ ~piper_in_PATH =>
              /\ runs = <<>>
              /\ q_pc \in {"which", "raised"}
              /\ q_pc = "raised" =>
                     q_exc = <<"piper binary not found in PATH">>
       /\ n <= 4
       /\ \A i \in 1..n :
              /\ runs[i].cmd = candidates[i]
              /\ i < n => ~ok(i)
       /\ q_pc = "returned" <=> (n >= 1 /\ ok(n))
       /\ (q_pc = "raised" /\ piper_in_PATH) =>
              /\ n = 4
              /\ q_exc[1] = "piper failed for all known CLI variants. stderr="
              /\ q_exc[2].of = 4
              /\ q_exc[2] = Kept(runs[4].stderr)
       /\ (q_pc = "for" /\ n = 4) => ~ok(4)

\* The third candidate was the first to succeed: the first exited with 0 and
\* left a file of 1000 bytes, the second failed and wrote nothing.
C34_Witness ==
    /\ q_pc = "returned"
    /\ Len(runs) = 3
    /\ runs[1].returncode = 0
    /\ runs[1].file = File(MinWavSize)
    /\ runs[2].returncode = 1
    /\ runs[2].file = File(MinWavSize)
    /\ runs[3].cmd[2] = "-m"

\* C33: GET /mp3/{job_id}.mp3 of the web service asks the store for the key
\* "{job_id}.mp3" in S3_BUCKET and for nothing else. It answers 200 with the
\* body of that object when the object is there and the store gives it, 404
\* "mp3 not found" when the store's error code is NoSuchKey or 404, and 502
\* "storage error" for every other error code of the store.
C33_StorageOutcomeToStatus ==
    m_pc = "done" =>
        LET at == <<"tts-dev", m_job_id \o ".mp3">>
        IN /\ m_get = [Bucket |-> at[1], Key |-> at[2]]
           /\ m_resp.code \in {200, 404, 502, 500}
           /\ m_resp.code = 200 =>
                 /\ at \in DOMAIN objects
                 /\ m_resp.body = objects[at]
                 /\ m_resp.media_type = "audio/mpeg"
           /\ m_resp.code = 404 => m_resp.detail = "mp3 not found"
           /\ m_resp.code = 502 => m_resp.detail = "storage error"
           /\ \A obj \in get_object(at[1], at[2]) :
                 LET res == Respond(obj)
                 IN /\ obj.is = "object" => res.code = 200
                    /\ obj.is = "ClientError" =>
                          res.code = IF obj.Code \in {"NoSuchKey", "404"}
                                     THEN 404 ELSE 502

\* A request for an object that only the other bucket holds has been
\* answered 404.
C33_Witness ==
    /\ m_pc = "done"
    /\ m_job_id = "ghost"
    /\ <<"tts-other", "ghost.mp3">> \in DOMAIN objects
    /\ m_resp = HTTPException(404, "mp3 not found")

\* C35: once the stored status of a job is DONE or FAILED, no step changes
\* it: no status update moves the job out of a terminal status or from one
\* terminal status to the other.
C35_TerminalStatusIsFinal ==
    [][\A j \in JobIds :
         LET key == job_key(j)
         IN (DOMAIN hashes[key] # {}
               /\ hashes[key].status \in {"DONE", "FAILED"}) =>
                hashes'[key].status = hashes[key].status]_vars

\* The status stored for job j, "" when no hash is stored.
StoredStatus(j) == get(hashes[job_key(j)], "status", "")
\* The jobs of the items taken from the queue.
TakenJobs == {taken[i][2].job_id : i \in 1..Len(taken)}

\* C32: whenever the status stored for a job that POST /jobs created and a
\* worker processed is DONE, the object "{job_id}.mp3" is in the job's
\* bucket, which is the bucket the web service reads: GET /mp3/{job_id}.mp3
\* made from then on is not answered 404, and is answered 200 with the
\* object whenever the store gives it.
C32_DoneJobHasItsObject ==
    \A j \in JobIds :
        StoredStatus(j) = "DONE" =>
            LET at == <<hashes[job_key(j)].bucket, hashes[job_key(j)].mp3_key>>
            IN /\ j \in TakenJobs
               /\ at = <<web_S3_BUCKET, S3Key(j)>>
               /\ at \in DOMAIN objects
               /\ Found(objects[at]) \in get_object(web_S3_BUCKET, S3Key(j))
               /\ Respond(Found(objects[at])).code = 200
               /\ \A obj \in get_object(web_S3_BUCKET, S3Key(j)) :
                     Respond(obj).code # 404

\* Both jobs are DONE, each processed by a worker of its own.
C32_Witness ==
    /\ StoredStatus("j1") = "DONE"
    /\ StoredStatus("j2") = "DONE"
    /\ Len(taken) = 2
    /\ taken[1][1] # taken[2][1]
    /\ DOMAIN objects = {<<"tts-dev", "j1.mp3">>, <<"tts-dev", "j2.mp3">>}

\* C36: every job that POST /jobs created and a worker took from the queue
\* eventually has the stored status DONE or FAILED, the workers and the API
\* running on.
C36_TakenJobReachesTerminalStatus ==
    \A j \in {"j1", "j2"} :
        (j \in TakenJobs) ~> (StoredStatus(j) \in {"DONE", "FAILED"})

\* C37: with several workers blocked on the queue, an item is taken by one
\* worker only and process_job runs at most once for it; the item a worker
\* takes is the head of the list, which the API extends at the tail, so the
\* items are taken in the order of their enqueueing; and no step puts an item
\* back: the list changes only by a take or by create_job's rpush of a job
\* that was never enqueued before.
C37_EachItemTakenOnceInOrder ==
    /\ [](/\ \A i, k \in 1..Len(taken) :
                taken[i][2] = taken[k][2] => i = k
          /\ \A i \in 1..Len(taken), k \in 1..Len(Queue) :
                taken[i][2] # Queue[k]
          /\ \A j \in JobIds :
                /\ ran[j] <= 1
                /\ ran[j] = 1 => j \in TakenJobs)
    /\ [][/\ \A w \in Workers :
               (t_pc[w] = "blpop" /\ t_pc'[w] = "process_job") =>
                   /\ Queue # <<>>
                   /\ t_raw'[w] = Head(Queue)
                   /\ lists'[jobs_queue_key] = Tail(Queue)
                   /\ taken' = Append(taken, <<w, Head(Queue)>>)
          /\ lists'[jobs_queue_key] # Queue =>
               \/ /\ Queue # <<>>
                  /\ lists'[jobs_queue_key] = Tail(Queue)
                  /\ \E w \in Workers : t_pc[w] = "blpop" /\ t_pc'[w] # "blpop"
               \/ \E h \in Handlers :
                     /\ a_pc[h] = "rpush"
                     /\ a_req[h].op = "create_job"
                     /\ lists'[jobs_queue_key] =
                           Append(Queue, Work(a_req[h].job_id))
                     /\ a_req[h].job_id \notin TakenJobs
                     /\ \A k \in 1..Len(Queue) :
                           Queue[k].job_id # a_req[h].job_id]_vars

\* Two workers have taken one item each, j1 first; the processing of j1
\* failed and j1 is FAILED, not back on the queue.
C37_Witness ==
    /\ Len(taken) = 2
    /\ taken[1][1] # taken[2][1]
    /\ taken[1][2].job_id = "j1"
    /\ taken[2][2].job_id = "j2"
    /\ StoredStatus("j1") = "FAILED"
    /\ ran["j1"] = 1
    /\ Queue = <<>>

\* The order of the statements of one iteration of the broker loop: from one
\* poll to the next the loop passes each send at most once.
LoopOrder ==
    {<<"poll", "if_xsub">>, <<"if_xsub", "count_in_xsub">>,
     <<"count_in_xsub", "send_xpub">>, <<"send_xpub", "count_out_xpub">>,
     <<"count_out_xpub", "if_xpub">>, <<"if_xsub", "if_xpub">>,
     <<"if_xpub", "count_in_subs">>, <<"count_in_subs", "send_xsub">>,
     <<"send_xsub", "count_out_subs">>, <<"count_out_subs", "poll">>,
     <<"if_xpub", "poll">>}

\* C38: neither direction of the broker loop starves the other. A poll
\* reports every side that is readable; an iteration that found a side
\* readable forwards one message of that side, and no iteration forwards more
\* than one data frame and one intent; so as long as the loop runs, an intent
\* that is readable on egress is forwarded by the iteration that polls next,
\* however many data frames wait on ingress, and a data frame likewise.
C38_NeitherDirectionStarves ==
    /\ [][/\ (b_pc' # b_pc /\ Running') => <<b_pc, b_pc'>> \in LoopOrder
          /\ (b_pc = "poll" /\ b_pc' = "if_xsub") =>
                /\ xsub_in # <<>> <=> "xsub" \in events'
                /\ xpub_in # <<>> <=> "xpub" \in events'
          /\ (b_pc = "if_xsub" /\ b_pc' # b_pc /\ Running') =>
                ("xsub" \in events <=> b_pc' = "count_in_xsub")
          /\ (b_pc = "if_xpub" /\ b_pc' # b_pc /\ Running') =>
                ("xpub" \in events <=> b_pc' = "count_in_subs")
          /\ xpub_out' # xpub_out =>
                /\ b_pc = "send_xpub"
                /\ Len(xpub_out') = Len(xpub_out) + 1
          /\ xsub_out' # xsub_out =>
                /\ b_pc = "send_xsub"
                /\ Len(xsub_out') = Len(xsub_out) + 1
          /\ (b_pc # "poll" /\ Running') => events' = events]_vars
    /\ \A n \in 0..MaxIntents :
          (Len(xpub_read) = n /\ xpub_in # <<>>)
              ~> (Len(xsub_out) > n \/ ~Running)
    /\ \A n \in 0..MaxFrames :
          (Len(xsub_read) = n /\ xsub_in # <<>>)
              ~> (Len(xpub_out) > n \/ ~Running)

\* An iteration found both sides readable and has forwarded a data frame and
\* an intent, with a second data frame waiting on ingress.
C38_Witness ==
    /\ b_pc = "count_out_subs"
    /\ events = {"xsub", "xpub"}
    /\ xsub_in # <<>>
    /\ Len(xpub_out) = 1
    /\ Len(xsub_out) = 1

====
